---------------------------- MODULE Spec2Model ----------------------------
(***************************************************************************)
(* Patent scoring pipeline: ingestion -> dedup gate -> queue -> batch      *)
(* classification -> Airtable sync.                                        *)
(*                                                                         *)
(* The two SQL tables (scores, queue) are functions from the composite     *)
(* primary key <<patent_id, abstract_sha1>> to a row.  A file is the list  *)
(* of records parse_file returns for it.  The classifier and the remote    *)
(* Airtable service are environment: what they answer for one item is an   *)
(* input of the call.                                                      *)
(***************************************************************************)
EXTENDS Integers, Sequences, FiniteSets, TLC

VARIABLES
    queue,      \* table "queue":  key -> QueueItem row
    results,    \* table "scores": key -> Score row
    airtable,   \* remote table: patent id -> number of records with that Patent ID
    pa,         \* the process_all_pending call in flight (or Idle)
    last,       \* the operation that ran last: its arguments and what it returned
    terminated, \* history: the keys whose queue row has ever left status pending
    runs,       \* the background batch runs and sync requests in flight at once
    call,       \* a call of one of the text functions: its arguments and result
    cache,      \* table "scores" of the local score cache: patent_id -> row
    deploy      \* the running API process: its PROMPT_VERSION, the keys stored when it started

\* The variables the pipeline's operations do not touch
aux == <<call, cache, deploy>>

vars == <<queue, results, airtable, pa, last, terminated, runs, call, cache, deploy>>

----------------------------------------------------------------------------
(* Bounds *)

NumDocs     == 2    \* size of the corpus the files are drawn from
MaxFileLen  == 2    \* records per ingested file
MaxBatch    == 2    \* largest batch_size a caller passes
MaxRemote   == 2    \* records the remote table holds per Patent ID
SyncDocs    == 3    \* size of the corpus in the specification of the sync gate
MaxTextLen  == 3    \* characters in an abstract passed to compute_abstract_sha1
DedupFileLen == 1   \* records per file ingested in the specification of the gate's key
MaxParts    == 3    \* parts of an XML stream
MaxEntries  == 2    \* entries of a zip archive
MaxRows     == 2    \* rows of a CSV file
MaxRetries  == 3    \* largest max_retries passed to get_relevance_score

----------------------------------------------------------------------------
(* Documents *)

\* The records the files are drawn from, as parse_csv_stream and
\* extract_record_from_xml return them.  Records 1 and 3 are two versions of
\* the abstract of P1, records 2 and 4 of P2.
Corpus ==
    << [patent_id |-> "P1", title |-> "Mine Detection Robot",
        abstract |-> "Uses radar and lidar sensors for detection.",
        pub_date |-> "2023-05-10", source |-> "USPTO CSV"],
       [patent_id |-> "P2", title |-> "Paper Napkin Folder",
        abstract |-> "A method of folding paper napkins.",
        pub_date |-> "2023-06-01", source |-> "USPTO CSV"],
       [patent_id |-> "P1", title |-> "Mine Locator",
        abstract |-> "A probe that locates buried objects by touch.",
        pub_date |-> "2023-05-10", source |-> "USPTO CSV"],
       [patent_id |-> "P2", title |-> "Robotic Arm",
        abstract |-> "gripper manipulator end effector for grasping objects",
        pub_date |-> "2023-06-01", source |-> "USPTO CSV"],
       [patent_id |-> "P1", title |-> "Coffee Maker",
        abstract |-> "A kettle with a battery heater.",
        pub_date |-> "2023-05-10", source |-> "USPTO CSV"] >>

Records == {Corpus[i] : i \in 1..NumDocs}

Ids == {r.patent_id : r \in Records}

\* Every list of at most MaxFileLen records: what parse_file can return.
Files == UNION {[1..n -> Records] : n \in 0..MaxFileLen}

\* hashlib.sha1(text.encode('utf-8')).hexdigest(): collision-free on the
\* corpus, and a function of the raw text alone.
compute_sha1(text) == <<"sha1", text>>

KeyOf(rec) == <<rec.patent_id, compute_sha1(rec.abstract)>>

Keys == {KeyOf(r) : r \in Records}

----------------------------------------------------------------------------
(* Small helpers *)

\* f with the pair k :> v added or replaced
Put(f, k, v) == [x \in (DOMAIN f) \cup {k} |-> IF x = k THEN v ELSE f[x]]

\* f without the keys in S
Drop(f, S) == [x \in (DOMAIN f) \ S |-> f[x]]

\* The injective sequences that enumerate the finite set S
Perms(S) ==
    {s \in [1..Cardinality(S) -> S] : \A i, j \in DOMAIN s : s[i] = s[j] => i = j}

\* One fixed enumeration of S
SeqOf(S) == CHOOSE s \in Perms(S) : TRUE

\* Mutant of Pending: the query also returns the rows in status error, so
\* that a failed item is retried.
PendingOrError(q) == {k \in DOMAIN q : q[k].status \in {"pending", "error"}}

\* filter(QueueItem.status == 'pending')
Pending(q) == {k \in DOMAIN q : q[k].status = "pending"}

Terminal == {"scored", "skipped", "error"}

Idle == [pc |-> "idle"]

\* The two slots for runs in flight at once, and the empty slot
Runs == {"a", "b"}

NoRun == [op |-> "none"]

NoCall == [fn |-> "none"]

\* PROMPT_VERSION = os.getenv("PROMPT_VERSION", "v1.0") of a process started on
\* empty stores
FirstDeploy == [PROMPT_VERSION |-> "v1.0", stored |-> {}]

----------------------------------------------------------------------------
(* Dedup gate and ingestion *)

\* db.query(Score).filter(patent_id ==, abstract_sha1 ==).first()
check_existing_score(r, patent_id, abstract_sha1) ==
    <<patent_id, abstract_sha1>> \in DOMAIN r

\* db.query(QueueItem).filter(patent_id ==, abstract_sha1 ==).first()
check_existing_in_queue(q, patent_id, abstract_sha1) ==
    <<patent_id, abstract_sha1>> \in DOMAIN q

\* QueueItem(...) as the loop builds it
NewQueueItem(rec) ==
    [patent_id     |-> rec.patent_id,
     abstract_sha1 |-> compute_sha1(rec.abstract),
     title         |-> rec.title,
     abstract      |-> rec.abstract,
     pub_date      |-> rec.pub_date,
     source        |-> rec.source,
     status        |-> "pending"]

\* Mutant of DedupStep: the "already in queue" branch skips the record without
\* counting it.
DedupStepQueuedUncounted(st, rec, q, r) ==
    LET sha == compute_sha1(rec.abstract) IN
    IF check_existing_score(r, rec.patent_id, sha)
    THEN [st EXCEPT !.existing_count = @ + 1]
    ELSE IF check_existing_in_queue(q, rec.patent_id, sha)
    THEN st
    ELSE [st EXCEPT !.new = Append(@, NewQueueItem(rec)),
                    !.new_count = @ + 1]

\* One pass of the "for rec in records" loop.  The session is created with
\* autoflush=False, so both lookups read the committed tables q and r and
\* never see the rows db.add() has put in the session (st.new).
DedupStep(st, rec, q, r) ==
    LET sha == compute_sha1(rec.abstract) IN
    IF check_existing_score(r, rec.patent_id, sha)
    THEN [st EXCEPT !.existing_count = @ + 1]
    ELSE IF check_existing_in_queue(q, rec.patent_id, sha)
    THEN [st EXCEPT !.queued_count = @ + 1]
    ELSE [st EXCEPT !.new = Append(@, NewQueueItem(rec)),
                    !.new_count = @ + 1]

\* Mutant of DedupLoop: a break after db.add(), so that a run enqueues at most
\* one new record.
RECURSIVE DedupLoopBreakAfterAdd(_, _, _, _, _)
DedupLoopBreakAfterAdd(st, records, i, q, r) ==
    IF i > Len(records) \/ st.new_count > 0 THEN st
    ELSE DedupLoopBreakAfterAdd(DedupStep(st, records[i], q, r), records, i + 1, q, r)

RECURSIVE DedupLoop(_, _, _, _, _)
DedupLoop(st, records, i, q, r) ==
    IF i > Len(records) THEN st
    ELSE DedupLoop(DedupStep(st, records[i], q, r), records, i + 1, q, r)

RowKey(row) == <<row.patent_id, row.abstract_sha1>>

\* db.commit() of the session's new rows: the INSERTs hit the primary key
\* (patent_id, abstract_sha1) of table queue.  TRUE when one of them raises
\* IntegrityError.
InsertConflict(new, q) ==
    \/ \E i \in DOMAIN new : RowKey(new[i]) \in DOMAIN q
    \/ \E i, j \in DOMAIN new : i # j /\ RowKey(new[i]) = RowKey(new[j])

\* enqueued_at = server_default func.now(), as far as rows can be compared by
\* it: a time later than that of every row in the table.  The rows one
\* commit inserts get the same time (CURRENT_TIMESTAMP counts in seconds).
func_now(q) ==
    IF DOMAIN q = {} THEN 1
    ELSE 1 + (CHOOSE t \in {q[k].enqueued_at : k \in DOMAIN q} :
                 \A k \in DOMAIN q : q[k].enqueued_at <= t)

\* The row a new QueueItem becomes when it is inserted at time t
Stamped(row, t) ==
    [c \in (DOMAIN row) \cup {"enqueued_at"} |->
        IF c = "enqueued_at" THEN t ELSE row[c]]

\* The table after a commit that raised nothing
Inserted(new, q) ==
    [k \in (DOMAIN q) \cup {RowKey(new[i]) : i \in DOMAIN new} |->
        IF k \in DOMAIN q THEN q[k]
        ELSE Stamped(new[CHOOSE i \in DOMAIN new : RowKey(new[i]) = k], func_now(q))]

\* What process_ingest_job does to the queue table and what it returns.
IngestOutcome(records, q, r) ==
    IF Len(records) = 0
    THEN [queue |-> q,
          job   |-> [status |-> "failed", matched_count |-> 0, enqueued_count |-> 0,
                     log |-> <<"No records found in file">>],
          ret   |-> [total_parsed |-> 0, existing_scores |-> 0, new_to_score |-> 0,
                     error |-> "No records found"]]
    ELSE
      LET st == CHOOSE x \in {DedupLoop([existing_count |-> 0, queued_count |-> 0,
                                          new_count |-> 0, new |-> <<>>],
                                         records, 1, q, r)} : TRUE
      IN IF InsertConflict(st.new, q)
         THEN \* except Exception: the commit rolled back, the job is failed
              [queue |-> q,
               job   |-> [status |-> "failed", matched_count |-> 0, enqueued_count |-> 0,
                          log |-> <<"IntegrityError">>],
               ret   |-> [total_parsed |-> 0, existing_scores |-> 0, new_to_score |-> 0,
                          error |-> "IntegrityError"]]
         ELSE [queue |-> Inserted(st.new, q),
               job   |-> [status |-> "completed", matched_count |-> st.existing_count,
                          enqueued_count |-> st.new_count,
                          log |-> <<"Parsed", Len(records), st.existing_count,
                                    st.queued_count, st.new_count>>],
               ret   |-> [total_parsed |-> Len(records),
                          existing_scores |-> st.existing_count,
                          new_to_score |-> st.new_count,
                          error |-> "None"]]

\* POST /api/ingest followed by its background task, run to completion.
Ingest(file) ==
    /\ pa = Idle
    /\ \E out \in {IngestOutcome(file, queue, results)} :
       /\ queue' = out.queue
       /\ last' = [op    |-> "ingest",
                   file  |-> file,
                   again |-> (last.op = "ingest" /\ last.file = file),
                   job   |-> out.job,
                   ret   |-> out.ret]
    /\ UNCHANGED <<results, airtable, pa, terminated, runs, aux>>

----------------------------------------------------------------------------
(* Keyword classifier *)

\* The keys of get_default_mapping(), in dict order
SubsystemList ==
    <<"Mobility", "Sensing", "Manipulation", "Control", "Power",
      "Communication", "Demining">>

\* sum(content.count(k) for k in kws) for content = f"{title} {abstract} ".lower()
\* and kws the default keywords of subsystem: the substring counts of the
\* corpus texts.
KeywordCount(title, abstract, subsystem) ==
    CASE title = "Mine Detection Robot" /\ subsystem = "Sensing"      -> 5
      [] title = "Mine Detection Robot" /\ subsystem = "Demining"     -> 1
      [] title = "Mine Locator"         /\ subsystem = "Demining"     -> 1
      [] title = "Robotic Arm"          /\ subsystem = "Manipulation" -> 5
      [] title = "Coffee Maker"         /\ subsystem = "Power"        -> 1
      [] OTHER -> 0

RECURSIVE SumCounts(_, _, _)
SumCounts(title, abstract, i) ==
    IF i > Len(SubsystemList) THEN 0
    ELSE KeywordCount(title, abstract, SubsystemList[i])
         + SumCounts(title, abstract, i + 1)

\* scorer.keyword_score(title=, abstract=, mapping=default)
keyword_score(title, abstract) ==
    LET hit(subsystem) == KeywordCount(title, abstract, subsystem) > 0
        total_matches  == SumCounts(title, abstract, 1)
    IN [Relevance |-> IF total_matches >= 3 THEN "High"
                      ELSE IF total_matches >= 1 THEN "Medium"
                      ELSE "Low",
        Subsystem |-> SelectSeq(SubsystemList, hit)]

\* The modes the routes are called with
Modes == {"keyword", "llm"}

\* score_patent(title, abstract, mapping=None, mode): "llm" falls back to
\* "keyword"; any other mode yields Low with no subsystem.
score_patent(title, abstract, mode) ==
    IF mode \in {"llm", "keyword"}
    THEN LET result == keyword_score(title, abstract)
         IN [relevance |-> result.Relevance, subsystem |-> result.Subsystem]
    ELSE [relevance |-> "Low", subsystem |-> <<>>]

----------------------------------------------------------------------------
(* Batch orchestrator *)

Relevances == {"High", "Medium", "Low"}

\* The values callers pass as min_relevance; "Any" is not a key of
\* relevance_order.
MinRelevances == {"High", "Medium", "Low", "Any"}

\* relevance_order.get(relevance, 0)
RelevanceOrder(relevance) ==
    CASE relevance = "High"   -> 3
      [] relevance = "Medium" -> 2
      [] relevance = "Low"    -> 1
      [] OTHER                -> 0

\* min_score = relevance_order.get(min_relevance, 2)
MinScore(min_relevance) ==
    IF min_relevance \in Relevances THEN RelevanceOrder(min_relevance) ELSE 2

\* Score(...) as the loop builds it
ScoreEntry(item, result, mode) ==
    [patent_id      |-> item.patent_id,
     abstract_sha1  |-> item.abstract_sha1,
     relevance      |-> result.relevance,
     subsystem_json |-> result.subsystem,
     title          |-> item.title,
     abstract       |-> item.abstract,
     pub_date       |-> item.pub_date,
     source         |-> item.source,
     model_id       |-> <<mode, "-scorer">>,
     prompt_version |-> "v1.0"]

ZeroStats == [processed |-> 0, scored |-> 0, filtered |-> 0, errors |-> 0]

\* Mutant of ScoreItem: the except branch does not set item.status.
ScoreItemErrorKeepsPending(st, k, raises, min_relevance, mode) ==
    IF raises
    THEN [st EXCEPT !.errors = @ + 1]
    ELSE LET item   == st.queue[k]
             result == score_patent(item.title, item.abstract, mode)
         IN IF RelevanceOrder(result.relevance) >= MinScore(min_relevance)
            THEN [st EXCEPT !.results = Put(@, k, ScoreEntry(item, result, mode)),
                            !.queue[k].status = "scored",
                            !.processed = @ + 1,
                            !.scored = @ + 1]
            ELSE [st EXCEPT !.queue[k].status = "scored",
                            !.processed = @ + 1,
                            !.filtered = @ + 1]

\* Mutant of ScoreItem: an item below the threshold is counted in scored.
ScoreItemFilteredCountedScored(st, k, raises, min_relevance, mode) ==
    IF raises
    THEN [st EXCEPT !.queue[k].status = "error", !.errors = @ + 1]
    ELSE LET item   == st.queue[k]
             result == score_patent(item.title, item.abstract, mode)
         IN IF RelevanceOrder(result.relevance) >= MinScore(min_relevance)
            THEN [st EXCEPT !.results = Put(@, k, ScoreEntry(item, result, mode)),
                            !.queue[k].status = "scored",
                            !.processed = @ + 1,
                            !.scored = @ + 1]
            ELSE [st EXCEPT !.queue[k].status = "scored",
                            !.processed = @ + 1,
                            !.scored = @ + 1]

\* Mutant of ScoreItem: the threshold test is > instead of >=.
ScoreItemStrictThreshold(st, k, raises, min_relevance, mode) ==
    IF raises
    THEN [st EXCEPT !.queue[k].status = "error", !.errors = @ + 1]
    ELSE LET item   == st.queue[k]
             result == score_patent(item.title, item.abstract, mode)
         IN IF RelevanceOrder(result.relevance) > MinScore(min_relevance)
            THEN [st EXCEPT !.results = Put(@, k, ScoreEntry(item, result, mode)),
                            !.queue[k].status = "scored",
                            !.processed = @ + 1,
                            !.scored = @ + 1]
            ELSE [st EXCEPT !.queue[k].status = "scored",
                            !.processed = @ + 1,
                            !.filtered = @ + 1]

\* The body of "for item in pending" for the item with key k.  raises tells
\* whether the score_patent call for it raises.  st carries both tables as
\* the session holds them and the four counters.
ScoreItem(st, k, raises, min_relevance, mode) ==
    IF raises
    THEN \* except Exception
         [st EXCEPT !.queue[k].status = "error", !.errors = @ + 1]
    ELSE LET item   == st.queue[k]
             result == score_patent(item.title, item.abstract, mode)
         IN IF RelevanceOrder(result.relevance) >= MinScore(min_relevance)
            THEN \* db.merge(score_entry)
                 [st EXCEPT !.results = Put(@, k, ScoreEntry(item, result, mode)),
                            !.queue[k].status = "scored",
                            !.processed = @ + 1,
                            !.scored = @ + 1]
            ELSE [st EXCEPT !.queue[k].status = "scored",
                            !.processed = @ + 1,
                            !.filtered = @ + 1]

\* Mutant of ScoreLoop: the try encloses the loop, so the first item that
\* raises ends it and the items after it stay as they were.
RECURSIVE ScoreLoopAbortOnRaise(_, _, _, _, _, _)
ScoreLoopAbortOnRaise(st, items, i, failing, min_relevance, mode) ==
    IF i > Len(items) THEN st
    ELSE IF items[i] \in failing
    THEN ScoreItem(st, items[i], TRUE, min_relevance, mode)
    ELSE ScoreLoopAbortOnRaise(ScoreItem(st, items[i], FALSE, min_relevance, mode),
                               items, i + 1, failing, min_relevance, mode)

RECURSIVE ScoreLoop(_, _, _, _, _, _)
ScoreLoop(st, items, i, failing, min_relevance, mode) ==
    IF i > Len(items) THEN st
    ELSE ScoreLoop(ScoreItem(st, items[i], items[i] \in failing, min_relevance, mode),
                   items, i + 1, failing, min_relevance, mode)

\* The sets of rows "filter(status == 'pending').limit(batch_size).all()" can
\* return: the query has no ORDER BY, so any batch_size pending rows (all of
\* them when there are fewer).
Pulls(q, batch_size) ==
    LET n == IF Cardinality(Pending(q)) < batch_size
             THEN Cardinality(Pending(q)) ELSE batch_size
    IN {S \in SUBSET Pending(q) : Cardinality(S) = n}

\* Mutant of BatchOutcome: db.commit() is missing, so the statistics are
\* returned and the tables stay as they were.
BatchOutcomeNoCommit(q, r, pulled, failing, min_relevance, mode) ==
    IF pulled = {}
    THEN [queue |-> q, results |-> r, stats |-> ZeroStats]
    ELSE LET st == ScoreLoop([queue |-> q, results |-> r, processed |-> 0,
                              scored |-> 0, filtered |-> 0, errors |-> 0],
                             SeqOf(pulled), 1, failing, min_relevance, mode)
         IN [queue |-> q, results |-> r,
             stats |-> [processed |-> st.processed, scored |-> st.scored,
                        filtered |-> st.filtered, errors |-> st.errors]]

\* process_queue_batch on the rows pulled: the tables after db.commit() and
\* the statistics returned.  The rows have distinct keys, so the order in
\* which the loop takes them does not change the outcome.
BatchOutcome(q, r, pulled, failing, min_relevance, mode) ==
    IF pulled = {}
    THEN [queue |-> q, results |-> r, stats |-> ZeroStats]
    ELSE LET st == ScoreLoop([queue |-> q, results |-> r, processed |-> 0,
                              scored |-> 0, filtered |-> 0, errors |-> 0],
                             SeqOf(pulled), 1, failing, min_relevance, mode)
         IN [queue |-> st.queue, results |-> st.results,
             stats |-> [processed |-> st.processed, scored |-> st.scored,
                        filtered |-> st.filtered, errors |-> st.errors]]

BatchInfo(caller, batch_size, pulled, failing, min_relevance, mode, stats) ==
    [op            |-> "batch",
     caller        |-> caller,
     batch_size    |-> batch_size,
     pulled        |-> pulled,
     failing       |-> failing,
     min_relevance |-> min_relevance,
     mode          |-> mode,
     ret           |-> stats]

Left(q) == {k \in DOMAIN q : q[k].status \in Terminal}

\* POST /api/queue/process-batch followed by its background task.
Batch(batch_size, min_relevance, mode) ==
    /\ pa = Idle
    /\ \E pulled \in Pulls(queue, batch_size) :
       \E failing \in SUBSET pulled :
       \E out \in {BatchOutcome(queue, results, pulled, failing, min_relevance, mode)} :
          /\ queue' = out.queue
          /\ results' = out.results
          /\ last' = BatchInfo("route", batch_size, pulled, failing, min_relevance, mode, out.stats)
    /\ terminated' = terminated \cup Left(queue')
    /\ UNCHANGED <<airtable, pa, runs, aux>>

----------------------------------------------------------------------------
(* process_all_pending *)

\* The history counter pa.calls stops counting here: more calls than a loop
\* that ends can make on a queue of at most NumDocs rows.
MaxCalls == NumDocs + 2

\* POST /api/queue/process-all: the background task enters "while True".
ProcessAllStart(batch_size, min_relevance, mode) ==
    /\ pa = Idle
    /\ pa' = [pc |-> "call", batch_size |-> batch_size,
              min_relevance |-> min_relevance, mode |-> mode,
              total_stats |-> ZeroStats, batch_stats |-> ZeroStats,
              \* history: the process_queue_batch calls made so far and the
              \* number of pending rows when the loop was entered
              calls |-> 0, pending_at_start |-> Cardinality(Pending(queue))]
    /\ last' = [op |-> "process_all_start"]
    /\ UNCHANGED <<queue, results, airtable, terminated, runs, aux>>

\* batch_stats = process_queue_batch(...)
ProcessAllCall ==
    /\ pa.pc = "call"
    /\ \E pulled \in Pulls(queue, pa.batch_size) :
       \E failing \in SUBSET pulled :
       \E out \in {BatchOutcome(queue, results, pulled, failing,
                                  pa.min_relevance, pa.mode)} :
          /\ queue' = out.queue
          /\ results' = out.results
          /\ pa' = [pa EXCEPT !.pc = "check", !.batch_stats = out.stats,
                                !.calls = IF @ < MaxCalls THEN @ + 1 ELSE @]
          /\ last' = BatchInfo("process_all", pa.batch_size, pulled, failing,
                               pa.min_relevance, pa.mode, out.stats)
    /\ terminated' = terminated \cup Left(queue')
    /\ UNCHANGED <<airtable, runs, aux>>

AddStats(total, batch) ==
    [processed |-> total.processed + batch.processed,
     scored    |-> total.scored + batch.scored,
     filtered  |-> total.filtered + batch.filtered,
     errors    |-> total.errors + batch.errors]

\* "if batch_stats['processed'] == 0: break" and return total_stats; else
\* add the batch to the totals and loop.
ProcessAllCheck ==
    /\ pa.pc = "check"
    /\ IF pa.batch_stats.processed = 0
       THEN /\ pa' = Idle
            /\ last' = [op |-> "process_all", batch_size |-> pa.batch_size,
                        calls |-> pa.calls, ret |-> pa.total_stats]
       ELSE /\ pa' = [pa EXCEPT !.pc = "call",
                                !.total_stats = AddStats(@, pa.batch_stats)]
            /\ last' = [op |-> "process_all_loop"]
    /\ UNCHANGED <<queue, results, airtable, terminated, runs, aux>>

----------------------------------------------------------------------------
(* Skip *)

\* UPDATE queue SET status = 'skipped' WHERE patent_id IN (patent_ids)
SkippedQueue(q, patent_ids) ==
    [k \in DOMAIN q |->
        IF q[k].patent_id \in patent_ids
        THEN [q[k] EXCEPT !.status = "skipped"]
        ELSE q[k]]

\* POST /api/queue/skip
skip_queue_items(patent_ids) ==
    /\ pa = Idle
    /\ queue' = SkippedQueue(queue, patent_ids)
    /\ last' = [op |-> "skip", patent_ids |-> patent_ids,
                updated |-> Cardinality({k \in DOMAIN queue :
                                            queue[k].patent_id \in patent_ids})]
    /\ terminated' = terminated \cup Left(queue')
    /\ UNCHANGED <<results, airtable, pa, runs, aux>>

----------------------------------------------------------------------------
(* Sync gate *)

\* What the remote service does for one selected Score: the answer to the
\* GET (lookup) and to the POST (create) is a success response, a failure
\* response, or requests raises.
RemoteAnswers == {"ok", "not_ok", "raises"}

\* A failure response to the POST and an exception raised by it are handled
\* alike (errors += 1, an "error" entry), so one stands for both.
RemoteBehaviours ==
    {b \in [lookup : RemoteAnswers, create : {"ok", "not_ok"}] :
        b.lookup = "raises" => b.create = "not_ok"}

\* The body of "for score in scores" for the Score with key k.
SyncItem(st, k, r, b) ==
    LET id == r[k].patent_id IN
    IF b.lookup = "raises"
    THEN [st EXCEPT !.errors = @ + 1,
                    !.details = Append(@, [patent_id |-> id, status |-> "error"])]
    ELSE IF b.lookup = "ok" /\ st.airtable[id] > 0
    THEN [st EXCEPT !.skipped = @ + 1,
                    !.details = Append(@, [patent_id |-> id, status |-> "skipped"])]
    ELSE IF b.create = "ok"
    THEN [st EXCEPT !.airtable[id] = @ + 1,
                    !.synced = @ + 1,
                    !.details = Append(@, [patent_id |-> id, status |-> "synced"])]
    ELSE [st EXCEPT !.errors = @ + 1,
                    !.details = Append(@, [patent_id |-> id, status |-> "error"])]

\* Mutant of SyncLoop: the try encloses the loop, so the first Score that
\* ends in an error entry ends the loop.
RECURSIVE SyncLoopAbortOnError(_, _, _, _, _)
SyncLoopAbortOnError(st, scores, i, r, remote) ==
    IF i > Len(scores) \/ st.errors > 0 THEN st
    ELSE SyncLoopAbortOnError(SyncItem(st, scores[i], r, remote[scores[i]]),
                              scores, i + 1, r, remote)

RECURSIVE SyncLoop(_, _, _, _, _)
SyncLoop(st, scores, i, r, remote) ==
    IF i > Len(scores) THEN st
    ELSE SyncLoop(SyncItem(st, scores[i], r, remote[scores[i]]),
                  scores, i + 1, r, remote)

\* Mutant of SelectedScores: the query has no filter on relevance.
SelectedScoresAnyRelevance(r, patent_ids) ==
    {k \in DOMAIN r : r[k].patent_id \in patent_ids}

\* filter(Score.patent_id.in_(patent_ids), Score.relevance.in_(["High","Medium"]))
SelectedScores(r, patent_ids) ==
    {k \in DOMAIN r : r[k].patent_id \in patent_ids
                      /\ r[k].relevance \in {"High", "Medium"}}

\* filter(Score.patent_id.in_(patent_ids), Score.relevance == "Low")
LowScores(r, patent_ids) ==
    {k \in DOMAIN r : r[k].patent_id \in patent_ids /\ r[k].relevance = "Low"}

\* Mutant of RemovedItems: the cleanup also deletes the scored rows of the
\* requested ids that have no Score row.
RemovedItemsAnyScored(q, r, patent_ids) ==
    {k \in DOMAIN q : /\ q[k].patent_id \in patent_ids
                       /\ q[k].status = "scored"
                       /\ (k \in DOMAIN r => r[k].relevance = "Low")}

\* Mutant of RemovedItems: the cleanup query has no filter on relevance, so
\* the queue rows of High and Medium Score rows are deleted as well.
RemovedItemsAnyRelevance(q, r, patent_ids) ==
    {k \in DOMAIN r : r[k].patent_id \in patent_ids} \cap DOMAIN q

\* Mutant of RemovedItems: the cleanup counts a deletion for every Low Score
\* row, whether or not its queue row is there.
RemovedItemsEveryLow(q, r, patent_ids) == LowScores(r, patent_ids)

\* The queue rows the cleanup loop deletes
RemovedItems(q, r, patent_ids) == LowScores(r, patent_ids) \cap DOMAIN q

\* The request of a sync run, what the remote service answered and the
\* response returned.  again tells that the run before it was a sync run with
\* the same patent_ids, and first_removed what that run removed.
SyncInfo(patent_ids, scores, remote, ret) ==
    LET again == last.op = "sync" /\ last.patent_ids = patent_ids /\ last.ret.ok
    IN [op            |-> "sync",
        patent_ids    |-> patent_ids,
        scores        |-> scores,
        remote        |-> remote,
        again         |-> again,
        first_removed |-> IF again THEN last.ret.removed ELSE 0,
        ret           |-> ret]

\* POST /api/sync-airtable.  scores is the order in which the query returned
\* the selected rows.
sync_to_airtable(patent_ids, scores, remote) ==
    /\ pa = Idle
    /\ IF patent_ids = {}
       THEN /\ UNCHANGED <<queue, airtable>>
            /\ last' = SyncInfo(patent_ids, scores, remote,
                                 [ok |-> FALSE, synced |-> 0, skipped |-> 0,
                                  errors |-> 0, removed |-> 0, details |-> <<>>])
       ELSE \E st \in {SyncLoop([airtable |-> airtable, synced |-> 0, skipped |-> 0,
                                  errors |-> 0, details |-> <<>>],
                                 scores, 1, results, remote)},
               gone \in {RemovedItems(queue, results, patent_ids)} :
               /\ \A id \in Ids : st.airtable[id] <= MaxRemote
               /\ airtable' = st.airtable
               /\ queue' = Drop(queue, gone)
               /\ last' = SyncInfo(patent_ids, scores, remote,
                                    [ok |-> TRUE, synced |-> st.synced,
                                     skipped |-> st.skipped, errors |-> st.errors,
                                     removed |-> Cardinality(gone),
                                     details |-> st.details])
    /\ terminated' = terminated \cup Left(queue')
    /\ UNCHANGED <<results, pa, runs, aux>>

----------------------------------------------------------------------------

Init ==
    /\ queue = <<>>
    /\ results = <<>>
    /\ airtable = [id \in Ids |-> 0]
    /\ pa = Idle
    /\ last = [op |-> "init"]
    /\ terminated = {}
    /\ runs = [w \in Runs |-> NoRun]
    /\ call = NoCall
    /\ cache = <<>>
    /\ deploy = FirstDeploy

Next ==
    \/ \E file \in Files : Ingest(file)
    \/ \E batch_size \in 1..MaxBatch, min_relevance \in MinRelevances, mode \in Modes :
          Batch(batch_size, min_relevance, mode)
    \/ \E batch_size \in 1..MaxBatch, min_relevance \in MinRelevances, mode \in Modes :
          ProcessAllStart(batch_size, min_relevance, mode)
    \/ ProcessAllCall
    \/ ProcessAllCheck
    \/ \E patent_ids \in SUBSET Ids : skip_queue_items(patent_ids)
    \/ \E patent_ids \in SUBSET Ids :
       \E scores \in Perms(SelectedScores(results, patent_ids)) :
       \E remote \in [SelectedScores(results, patent_ids) -> RemoteBehaviours] :
          sync_to_airtable(patent_ids, scores, remote)

Spec == Init /\ [][Next]_vars

----------------------------------------------------------------------------
(* The sync gate on the stores of a larger corpus *)

\* The first SyncDocs records of the corpus: with three of them the scores
\* table can hold two High/Medium rows and a Low row.
SyncRecords == {Corpus[i] : i \in 1..SyncDocs}

\* The stores after one file of distinct records has been ingested into the
\* empty stores and one process_queue_batch call, in which the classifier did
\* not fail, has taken every item.
SyncInit ==
    \E S \in SUBSET SyncRecords, min_relevance \in MinRelevances :
       \E ing \in {IngestOutcome(SeqOf(S), <<>>, <<>>)} :
       \E out \in {BatchOutcome(ing.queue, <<>>, Pending(ing.queue), {},
                                  min_relevance, "keyword")} :
          /\ queue = out.queue
          /\ results = out.results
          /\ airtable = [id \in Ids |-> 0]
          /\ pa = Idle
          /\ last = [op |-> "init"]
          /\ terminated = Left(out.queue)
          /\ runs = [w \in Runs |-> NoRun]
          /\ call = NoCall
          /\ cache = <<>>
          /\ deploy = FirstDeploy

\* Sync runs, one after the other, on every set of ids, in every order in
\* which the query can return the rows and for every behaviour of the remote
\* service.
SyncNext ==
    \E patent_ids \in SUBSET Ids :
    \E scores \in Perms(SelectedScores(results, patent_ids)) :
    \E remote \in [SelectedScores(results, patent_ids) -> RemoteBehaviours] :
       sync_to_airtable(patent_ids, scores, remote)

SyncSpec == SyncInit /\ [][SyncNext]_vars

----------------------------------------------------------------------------
(* Runs in flight at the same time *)

(***************************************************************************)
(* The batch routes hand process_queue_batch to BackgroundTasks and the    *)
(* sync route is a plain "def": FastAPI runs both on its thread pool, each *)
(* run with a session of its own, so two of them can be in flight at once. *)
(* A batch run reads the tables when it pulls and when db.merge looks the  *)
(* Score row up, and writes them at db.commit(); a sync run reads the      *)
(* scores table, then alternates GET and POST, then cleans the queue.      *)
(* Here the remote service answers every request successfully, and the     *)
(* history variables last and terminated are not kept.                     *)
(***************************************************************************)

\* Slot "b" is taken only while slot "a" is: the two slots are alike.
StartsInOrder(w) == w = "b" => runs["a"] # NoRun

\* process_ingest_job, run to completion
IngestRun(file) ==
    /\ queue' = IngestOutcome(file, queue, results).queue
    /\ UNCHANGED <<results, airtable, pa, last, terminated, runs, aux>>

\* skip_queue_items
SkipRun(patent_ids) ==
    /\ queue' = SkippedQueue(queue, patent_ids)
    /\ UNCHANGED <<results, airtable, pa, last, terminated, runs, aux>>

\* process_queue_batch up to the start of the loop: the rows the query
\* returned are objects of the run's session.  A call that finds nothing
\* pending returns at once and changes nothing.
BatchPull(w, batch_size, min_relevance, mode) ==
    /\ runs[w] = NoRun
    /\ StartsInOrder(w)
    /\ \E pulled \in Pulls(queue, batch_size) :
          /\ pulled # {}
          /\ runs' = [runs EXCEPT ![w] =
                         [op |-> "batch", loaded |-> [k \in pulled |-> queue[k]],
                          had |-> pulled \cap DOMAIN results,
                          min_relevance |-> min_relevance, mode |-> mode]]
    /\ UNCHANGED <<queue, results, airtable, pa, last, terminated, aux>>

\* The keys for which the loop calls db.merge
Merged(loaded, failing, min_relevance, mode) ==
    DOMAIN ScoreLoop([queue |-> loaded, results |-> <<>>, processed |-> 0,
                      scored |-> 0, filtered |-> 0, errors |-> 0],
                     SeqOf(DOMAIN loaded), 1, failing, min_relevance, mode).results

\* db.commit() of a batch run raises and the run rolls back: the UPDATE of a
\* queue row that has been deleted matches no row (StaleDataError), or
\* db.merge found no Score row (unseen) and the INSERT meets the row another
\* run has committed since (IntegrityError).
CommitFails(t, q, r, failing, unseen) ==
    \/ \E k \in DOMAIN t.loaded : k \notin DOMAIN q
    \/ /\ unseen
       /\ \E k \in Merged(t.loaded, failing, t.min_relevance, t.mode) :
             k \in DOMAIN r /\ k \notin t.had

\* The tables after the loop and db.commit() of the batch run t: db.merge
\* writes the Score row, new or not, and the status of each pulled row is
\* written over whatever it is by now.
CommitOutcome(t, q, r, failing) ==
    LET st == ScoreLoop([queue |-> t.loaded, results |-> r, processed |-> 0,
                         scored |-> 0, filtered |-> 0, errors |-> 0],
                        SeqOf(DOMAIN t.loaded), 1, failing, t.min_relevance, t.mode)
    IN [queue   |-> [k \in DOMAIN q |->
                        IF k \in DOMAIN t.loaded
                        THEN [q[k] EXCEPT !.status = st.queue[k].status]
                        ELSE q[k]],
        results |-> st.results]

\* The loop and db.commit() of the batch run in slot w.
BatchFinish(w, failing, unseen) ==
    /\ runs[w].op = "batch"
    /\ failing \subseteq DOMAIN runs[w].loaded
    /\ IF CommitFails(runs[w], queue, results, failing, unseen)
       THEN UNCHANGED <<queue, results>>
       ELSE \E out \in {CommitOutcome(runs[w], queue, results, failing)} :
               /\ queue' = out.queue
               /\ results' = out.results
    /\ runs' = [runs EXCEPT ![w] = NoRun]
    /\ UNCHANGED <<airtable, pa, last, terminated, aux>>

\* sync_to_airtable up to the start of the loop.  scores is the order in
\* which the query returned the selected rows; the loop uses their patent_id.
SyncSelect(w, patent_ids, scores) ==
    /\ runs[w] = NoRun
    /\ StartsInOrder(w)
    /\ patent_ids # {}
    /\ runs' = [runs EXCEPT ![w] =
                   [op |-> "sync", patent_ids |-> patent_ids,
                    ids |-> [i \in DOMAIN scores |-> results[scores[i]].patent_id],
                    i |-> 1, pc |-> IF Len(scores) = 0 THEN "cleanup" ELSE "lookup",
                    synced |-> 0, skipped |-> 0]]
    /\ UNCHANGED <<queue, results, airtable, pa, last, terminated, aux>>

\* The run t after the Score it was at: the next one, or the cleanup
NextScore(t) ==
    [t EXCEPT !.i = @ + 1,
              !.pc = IF t.i + 1 > Len(t.ids) THEN "cleanup" ELSE "lookup"]

\* requests.get(list_url): a record is found and the Score is skipped, or
\* none is found and the run goes on to the create.
SyncLookup(w) ==
    /\ runs[w].op = "sync"
    /\ runs[w].pc = "lookup"
    /\ runs' = [runs EXCEPT ![w] =
                   IF airtable[runs[w].ids[runs[w].i]] > 0
                   THEN [NextScore(@) EXCEPT !.skipped = @ + 1]
                   ELSE [@ EXCEPT !.pc = "create"]]
    /\ UNCHANGED <<queue, results, airtable, pa, last, terminated, aux>>

\* Mutant of CreateRecord: the remote service refuses a second record for
\* an identifier.
CreateRecordIfAbsent(a, id) == IF a[id] > 0 THEN a ELSE [a EXCEPT ![id] = @ + 1]

\* The remote table after a successful POST of a record for id
CreateRecord(a, id) == [a EXCEPT ![id] = @ + 1]

\* requests.post(create_url, json={"fields": fields})
SyncCreate(w) ==
    /\ runs[w].op = "sync"
    /\ runs[w].pc = "create"
    /\ airtable[runs[w].ids[runs[w].i]] < MaxRemote
    /\ airtable' = CreateRecord(airtable, runs[w].ids[runs[w].i])
    /\ runs' = [runs EXCEPT ![w] = [NextScore(@) EXCEPT !.synced = @ + 1]]
    /\ UNCHANGED <<queue, results, pa, last, terminated, aux>>

\* The Low cleanup, db.commit() and the response
SyncCleanup(w) ==
    /\ runs[w].op = "sync"
    /\ runs[w].pc = "cleanup"
    /\ queue' = Drop(queue, RemovedItems(queue, results, runs[w].patent_ids))
    /\ runs' = [runs EXCEPT ![w] = NoRun]
    /\ UNCHANGED <<results, airtable, pa, last, terminated, aux>>

ConcNext ==
    \/ \E file \in Files : IngestRun(file)
    \/ \E patent_ids \in SUBSET Ids : SkipRun(patent_ids)
    \/ \E w \in Runs, batch_size \in 1..MaxBatch,
          min_relevance \in MinRelevances, mode \in Modes :
          BatchPull(w, batch_size, min_relevance, mode)
    \/ \E w \in Runs, failing \in SUBSET Keys, unseen \in BOOLEAN :
          BatchFinish(w, failing, unseen)
    \/ \E w \in Runs, patent_ids \in SUBSET Ids :
       \E scores \in Perms(SelectedScores(results, patent_ids)) :
          SyncSelect(w, patent_ids, scores)
    \/ \E w \in Runs : SyncLookup(w)
    \/ \E w \in Runs : SyncCreate(w)
    \/ \E w \in Runs : SyncCleanup(w)

ConcSpec == Init /\ [][ConcNext]_vars

----------------------------------------------------------------------------
(* Texts *)

\* Python str values are TLA+ strings; Head, Tail, Len, SubSeq and \o work
\* on them character by character.
\* The characters str.split() and str.strip() take for whitespace
Whitespace == {" ", "\t", "\n"}

lower_char(c) ==
    LET UpperCase == "ABCDEFGHIJKLMNOPQRSTUVWXYZ"
        LowerCase == "abcdefghijklmnopqrstuvwxyz"
    IN IF \E i \in 1..Len(UpperCase) : SubSeq(UpperCase, i, i) = c
       THEN LET i == CHOOSE i \in 1..Len(UpperCase) : SubSeq(UpperCase, i, i) = c
            IN SubSeq(LowerCase, i, i)
       ELSE c

\* str.lower(): every character is mapped by itself, so the text can be
\* lowered half by half
RECURSIVE lower(_)
lower(s) ==
    IF Len(s) = 0 THEN ""
    ELSE IF Len(s) = 1 THEN lower_char(s)
    ELSE LET h == Len(s) \div 2
         IN lower(SubSeq(s, 1, h)) \o lower(SubSeq(s, h + 1, Len(s)))

\* " ".join(s.split()): out is the text joined so far, gap tells that
\* whitespace has been passed since its last character.
RECURSIVE join_split(_, _, _)
join_split(s, out, gap) ==
    IF Len(s) = 0 THEN out
    ELSE IF Head(s) \in Whitespace THEN join_split(Tail(s), out, TRUE)
    ELSE join_split(Tail(s),
                    IF gap /\ Len(out) > 0 THEN out \o " " \o Head(s) ELSE out \o Head(s),
                    FALSE)

\* hashlib.sha1(text.encode("utf-8")).hexdigest(): a function of the text,
\* free of collisions on the texts considered.
sha1_hexdigest(text) == <<"sha1", text>>

\* Mutant of compute_abstract_sha1: the abstract is not lowercased.
compute_abstract_sha1_keeps_case(patent_id, abstract, prompt_version) ==
    LET normalized == join_split(abstract, "", FALSE)
        hash_input == patent_id \o "|" \o normalized \o "|" \o prompt_version
    IN sha1_hexdigest(hash_input)

\* api/utils/hash.py
compute_abstract_sha1(patent_id, abstract, prompt_version) ==
    LET normalized == join_split(lower(abstract), "", FALSE)
        hash_input == patent_id \o "|" \o normalized \o "|" \o prompt_version
    IN sha1_hexdigest(hash_input)

\* The texts of at most n characters over the alphabet A
RECURSIVE TextsOver(_, _)
TextsOver(A, n) ==
    IF n = 0 THEN {""}
    ELSE {""} \cup {c \o t : c \in A, t \in TextsOver(A, n - 1)}

\* Arguments of compute_abstract_sha1: abstracts with letters in both cases,
\* whitespace and the separator of the hash input; a patent_id that holds
\* the separator; two prompt versions.
HashAbstracts == TextsOver({"a", "A", " ", "|"}, MaxTextLen)
HashPatentIds == {"P1", "P2", "P1|a"}
PromptVersions == {"v1.0", "v2.0"}

HashCall(patent_id, abstract, prompt_version) ==
    /\ call' = [fn |-> "compute_abstract_sha1",
                patent_id |-> patent_id, abstract |-> abstract,
                prompt_version |-> prompt_version,
                ret |-> compute_abstract_sha1(patent_id, abstract, prompt_version)]
    /\ UNCHANGED <<queue, results, airtable, pa, last, terminated, runs, cache, deploy>>

HashNext ==
    \E patent_id \in HashPatentIds, abstract \in HashAbstracts,
       prompt_version \in PromptVersions :
       HashCall(patent_id, abstract, prompt_version)

HashSpec == Init /\ [][HashNext]_vars

----------------------------------------------------------------------------
(* The dedup gate on versions of one document *)

\* Three versions of the document P1: the first record of the corpus, the
\* same abstract in another case and with a run of two spaces, and an
\* abstract with other words.
DedupRecords ==
    { Corpus[1],
      [Corpus[1] EXCEPT !.abstract = "USES radar  and lidar sensors for detection."],
      Corpus[3] }

\* The files of at most one document
DedupFiles == UNION {[1..n -> DedupRecords] : n \in 0..DedupFileLen}

\* The API process is stopped and started again with another PROMPT_VERSION
\* in its environment; the stores keep their rows.
Restart(prompt_version) ==
    /\ pa = Idle
    /\ deploy.PROMPT_VERSION = "v1.0"
    /\ prompt_version # deploy.PROMPT_VERSION
    /\ deploy' = [PROMPT_VERSION |-> prompt_version,
                  stored |-> DOMAIN queue \cup DOMAIN results]
    /\ UNCHANGED <<queue, results, airtable, pa, last, terminated, runs, call, cache>>

DedupNext ==
    \/ \E file \in DedupFiles : Ingest(file)
    \/ \E batch_size \in 1..MaxBatch, min_relevance \in MinRelevances :
          Batch(batch_size, min_relevance, "keyword")
    \/ \E prompt_version \in PromptVersions : Restart(prompt_version)

DedupSpec == Init /\ [][DedupNext]_vars

----------------------------------------------------------------------------
(* Extraction of records from files *)

\* str.lstrip() and str.strip()
RECURSIVE lstrip(_)
lstrip(s) ==
    IF Len(s) = 0 THEN ""
    ELSE IF Head(s) \in Whitespace THEN lstrip(Tail(s)) ELSE s

RECURSIVE strip(_)
strip(s) ==
    LET t == lstrip(s) IN
    IF Len(t) = 0 THEN ""
    ELSE IF SubSeq(t, Len(t), Len(t)) \in Whitespace
         THEN strip(SubSeq(t, 1, Len(t) - 1))
         ELSE t

\* ' '.join(parts)
RECURSIVE join(_)
join(parts) ==
    IF Len(parts) = 0 THEN ""
    ELSE IF Len(parts) = 1 THEN parts[1]
    ELSE parts[1] \o " " \o join(Tail(parts))

\* [_text(p) for p in _iter_children(abstract_elem, 'p')]
stripped(parts) == [i \in DOMAIN parts |-> strip(parts[i])]

\* extract_record_from_xml: a document element is the record of the texts
\* of its children (a missing child has the text ""), pub_ref tells whether
\* it has a publication-reference/document-id, abstract lists the texts of
\* the <p> children of its abstract.  The result is the list of the records
\* returned: empty for None.
extract_record_from_xml(doc_elem) ==
    IF ~doc_elem.pub_ref THEN <<>>
    ELSE
      LET doc_num   == strip(doc_elem.doc_number)
          kind      == strip(doc_elem.kind)
          date      == strip(doc_elem.date)
          country   == strip(doc_elem.country)
          patent_id == IF country # "" /\ doc_num # "" /\ kind # ""
                       THEN country \o doc_num \o kind ELSE doc_num
          title     == strip(doc_elem.invention_title)
          abstract  == join(stripped(doc_elem.abstract))
      IN IF patent_id = "" \/ abstract = "" THEN <<>>
         ELSE << [patent_id |-> patent_id,
                  title     |-> title,
                  abstract  |-> abstract,
                  pub_date  |-> date,
                  source    |-> IF doc_elem.tag = "us-patent-grant"
                                THEN "GRANT" ELSE "IPAB"] >>

\* parse_xml_stream: the stream is the list of its parts in reading order.
\* A part is a document element, a part that is not well-formed, or the XML
\* declaration that opens a single-root document.  iterparse hands over the
\* events of the parts before the first one it cannot parse and then raises;
\* it cannot parse a part that is not well-formed, nor a declaration
\* anywhere but at the start of the stream.  The except clause ends the loop
\* and the records collected so far are returned.
RECURSIVE parse_xml_stream(_, _, _)
parse_xml_stream(stream, i, records) ==
    IF i > Len(stream) THEN records
    ELSE IF stream[i].part = "malformed" THEN records
    ELSE IF stream[i].part = "declaration"
         THEN IF i = 1 THEN parse_xml_stream(stream, i + 1, records) ELSE records
    ELSE IF stream[i].tag \in {"us-patent-application", "us-patent-grant"}
         THEN parse_xml_stream(stream, i + 1,
                               records \o extract_record_from_xml(stream[i]))
    ELSE parse_xml_stream(stream, i + 1, records)

\* normalized.get(key): the stripped value of the column, "" for a column
\* the file does not have (None and "" are both false for "or" and "not")
Get(row, key) == IF key \in DOMAIN row THEN strip(row[key]) ELSE ""

\* a or b, on strings
Or(a, b) == IF a # "" THEN a ELSE b

\* One pass of the "for row in reader" loop of parse_csv_stream: the list of
\* the records appended.
CsvRow(row) ==
    LET patent_id == Or(Get(row, "patent_id"), Or(Get(row, "patentid"),
                     Or(Get(row, "document_id"), Or(Get(row, "doc_number"),
                        Get(row, "publication_number")))))
        title     == Or(Get(row, "title"), Get(row, "invention_title"))
        abstract  == Or(Get(row, "abstract"), Or(Get(row, "notes"),
                     Or(Get(row, "summary"), title)))
        pub_date  == Or(Get(row, "pub_date"), Or(Get(row, "pubdate"),
                     Or(Get(row, "date_published"), Or(Get(row, "date"),
                        Get(row, "filing_date")))))
        source    == IF "source" \in DOMAIN row THEN strip(row["source"])
                     ELSE "USPTO CSV"
        rec(a)    == << [patent_id |-> patent_id, title |-> title, abstract |-> a,
                         pub_date |-> pub_date, source |-> source] >>
    IN IF patent_id = "" THEN <<>>
       ELSE IF abstract = "" \/ Len(abstract) < 10
            THEN IF Len(title) >= 10 THEN rec(title) ELSE <<>>
            ELSE rec(abstract)

RECURSIVE parse_csv_stream(_, _, _)
parse_csv_stream(rows, i, records) ==
    IF i > Len(rows) THEN records
    ELSE parse_csv_stream(rows, i + 1, records \o CsvRow(rows[i]))

\* str.endswith(suffix)
endswith(s, suffix) ==
    /\ Len(s) >= Len(suffix)
    /\ SubSeq(s, Len(s) - Len(suffix) + 1, Len(s)) = suffix

\* The zip branch of parse_file: an entry has a name, a stream, and opens
\* tells whether zf.open(name) returns.  When it raises, the exception leaves
\* the loop over namelist() and the except clause of parse_file returns the
\* records extended so far.
RECURSIVE ZipLoop(_, _, _)
ZipLoop(entries, i, records) ==
    IF i > Len(entries) THEN records
    ELSE IF ~endswith(lower(entries[i].name), ".xml")
         THEN ZipLoop(entries, i + 1, records)
    ELSE IF ~entries[i].opens THEN records
    ELSE ZipLoop(entries, i + 1,
                 records \o parse_xml_stream(entries[i].stream, 1, <<>>))

\* parse_file: a file has the suffix of its path and its content, which is
\* a list of rows for .csv, a stream for .xml and .gz, a list of entries
\* for .zip.
parse_file(file) ==
    CASE file.suffix = ".csv" -> parse_csv_stream(file.content, 1, <<>>)
      [] file.suffix = ".gz"  -> parse_xml_stream(file.content, 1, <<>>)
      [] file.suffix = ".zip" -> ZipLoop(file.content, 1, <<>>)
      [] file.suffix = ".xml" -> parse_xml_stream(file.content, 1, <<>>)
      [] OTHER                -> <<>>

\* Document elements: a complete application, a grant without country and
\* kind whose abstract is one short paragraph, an application whose abstract
\* is two empty paragraphs, one without doc-number, one without
\* publication-reference, one without abstract.
DocElem(tag, pub_ref, country, doc_number, kind, title, abstract) ==
    [part |-> "element", tag |-> tag, pub_ref |-> pub_ref, country |-> country,
     doc_number |-> doc_number, kind |-> kind, date |-> "20230510",
     invention_title |-> title, abstract |-> abstract]

LongDoc  == DocElem("us-patent-application", TRUE, "US", " 1001 ", "A1",
                    "Mine Detection Robot",
                    <<" Uses radar and lidar sensors for detection. ">>)
ShortDoc == DocElem("us-patent-grant", TRUE, "", "1002", "", "Robotic Arm",
                    <<" Short. ">>)
BlankDoc == DocElem("us-patent-application", TRUE, "US", "1003", "A1", "Coffee Maker",
                    <<"", " ">>)

DocElems ==
    { LongDoc, ShortDoc, BlankDoc,
      DocElem("us-patent-application", TRUE, "US", "", "A1", "Mine Locator",
              <<"A probe that locates buried objects by touch.">>),
      DocElem("us-patent-application", FALSE, "US", "1005", "A1", "Mine Locator",
              <<"A probe that locates buried objects by touch.">>),
      DocElem("us-patent-application", TRUE, "US", "1006", "A1", "Mine Locator", <<>>) }

Malformed   == [part |-> "malformed"]
Declaration == [part |-> "declaration"]

\* The streams of at most MaxParts parts
StreamParts == {LongDoc, ShortDoc, Malformed, Declaration}
XmlStreams  == UNION {[1..n -> StreamParts] : n \in 0..MaxParts}

\* The archives of at most MaxEntries entries
ZipEntries ==
    [name : {"a.xml", "B.XML", "c.txt"}, opens : BOOLEAN,
     stream : {<<LongDoc>>, <<ShortDoc>>, <<Malformed, LongDoc>>}]
ZipArchives == UNION {[1..n -> ZipEntries] : n \in 0..MaxEntries}

\* The CSV files of at most MaxRows rows, with or without a column abstract
CsvRows ==
    [patent_id : {"", " P7 "}, title : {"Arm", "Mine Locator"}]
    \cup [patent_id : {"", " P7 "}, title : {"Arm", "Mine Locator"},
          abstract : {" Short.  ", " A probe that locates buried objects. "}]
CsvFiles == UNION {[1..n -> CsvRows] : n \in 0..MaxRows}

ParseFiles ==
    {[suffix |-> ".xml", content |-> c] : c \in XmlStreams}
    \cup {[suffix |-> ".gz", content |-> <<e>>] : e \in DocElems}
    \cup {[suffix |-> ".zip", content |-> c] : c \in ZipArchives}
    \cup {[suffix |-> ".csv", content |-> c] : c \in CsvFiles}
    \cup {[suffix |-> ".txt", content |-> <<>>]}

ParseCall(file) ==
    /\ call' = [fn |-> "parse_file", file |-> file, ret |-> parse_file(file)]
    /\ UNCHANGED <<queue, results, airtable, pa, last, terminated, runs, cache, deploy>>

ParseNext == \E file \in ParseFiles : ParseCall(file)

ParseSpec == Init /\ [][ParseNext]_vars

\* process_ingest_job(job_id, file_path): parse_file, then the dedup loop.
\* The files are those of one document element or of at most MaxRows rows.
ExtractFiles ==
    {[suffix |-> ".xml", content |-> <<e>>] : e \in DocElems}
    \cup {[suffix |-> ".csv", content |-> c] : c \in CsvFiles}

ExtractNext == \E file \in ExtractFiles : Ingest(parse_file(file))

ExtractSpec == Init /\ [][ExtractNext]_vars

----------------------------------------------------------------------------
(* Ingestion runs in flight at once *)

\* start_ingest hands process_ingest_job to BackgroundTasks: two jobs can
\* run at once, each with a session of its own.  A job reads the committed
\* tables at every pass of its loop and writes at db.commit().

\* The files with at least one record and no record twice
RaceFiles ==
    {f \in Files : Len(f) > 0 /\ \A i, j \in DOMAIN f : f[i] = f[j] => i = j}

\* process_ingest_job up to the start of the loop
IngestStart(w, file) ==
    /\ runs[w].op \in {"none", "ingested"}
    /\ StartsInOrder(w)
    /\ runs' = [runs EXCEPT ![w] =
                   [op |-> "ingest", file |-> file, i |-> 1,
                    st |-> [existing_count |-> 0, queued_count |-> 0,
                            new_count |-> 0, new |-> <<>>]]]
    /\ UNCHANGED <<queue, results, airtable, pa, last, terminated, aux>>

\* One pass of the loop
IngestStep(w) ==
    /\ runs[w].op = "ingest"
    /\ runs[w].i <= Len(runs[w].file)
    /\ runs' = [runs EXCEPT ![w].st = DedupStep(@, runs[w].file[runs[w].i], queue, results),
                            ![w].i = @ + 1]
    /\ UNCHANGED <<queue, results, airtable, pa, last, terminated, aux>>

\* db.commit() after the loop and the update of the job, or the except
\* clause when the commit raises IntegrityError and rolls back.
IngestCommit(w) ==
    /\ runs[w].op = "ingest"
    /\ runs[w].i > Len(runs[w].file)
    /\ IF InsertConflict(runs[w].st.new, queue)
       THEN /\ runs' = [runs EXCEPT ![w] = [op |-> "ingested", file |-> runs[w].file,
                                            status |-> "failed"]]
            /\ UNCHANGED queue
       ELSE /\ runs' = [runs EXCEPT ![w] = [op |-> "ingested", file |-> runs[w].file,
                                            status |-> "completed"]]
            /\ queue' = Inserted(runs[w].st.new, queue)
    /\ UNCHANGED <<results, airtable, pa, last, terminated, aux>>

RaceNext ==
    \/ \E w \in Runs, file \in RaceFiles : IngestStart(w, file)
    \/ \E w \in Runs : IngestStep(w)
    \/ \E w \in Runs : IngestCommit(w)

RaceSpec == Init /\ [][RaceNext]_vars

----------------------------------------------------------------------------
(* Ingestion, batch and sync runs in flight at the same time *)

\* process_ingest_job is a plain "def" handed to BackgroundTasks like the
\* batch runs, so its passes interleave with the steps of a batch run and of
\* a sync request.

\* process_ingest_job has returned and its thread is free again
IngestReturn(w) ==
    /\ runs[w].op = "ingested"
    /\ runs' = [runs EXCEPT ![w] = NoRun]
    /\ UNCHANGED <<queue, results, airtable, pa, last, terminated, aux>>

MixedNext ==
    \/ \E w \in Runs, file \in RaceFiles : IngestStart(w, file)
    \/ \E w \in Runs : IngestStep(w)
    \/ \E w \in Runs : IngestCommit(w)
    \/ \E w \in Runs : IngestReturn(w)
    \/ \E w \in Runs, batch_size \in 1..MaxBatch, min_relevance \in MinRelevances :
          BatchPull(w, batch_size, min_relevance, "keyword")
    \/ \E w \in Runs, failing \in SUBSET Keys, unseen \in BOOLEAN :
          BatchFinish(w, failing, unseen)
    \/ \E w \in Runs, patent_ids \in SUBSET Ids :
       \E scores \in Perms(SelectedScores(results, patent_ids)) :
          SyncSelect(w, patent_ids, scores)
    \/ \E w \in Runs : SyncLookup(w)
    \/ \E w \in Runs : SyncCreate(w)
    \/ \E w \in Runs : SyncCleanup(w)

MixedSpec == Init /\ [][MixedNext]_vars

----------------------------------------------------------------------------
(* Ingestion when the store raises *)

(***************************************************************************)
(* Every statement of process_ingest_job that talks to the database can    *)
(* raise (sqlite3 "database is locked" under the writers of the thread     *)
(* pool, a disk error): the two lookups of a pass, the commit of the new   *)
(* rows and the commit of the job row.  The except clause does not call    *)
(* db.rollback(): it loads the job, sets it failed and calls db.commit()   *)
(* on the same session.  A commit that raised has rolled the session back  *)
(* and expunged its pending rows; a lookup that raised has not, so the     *)
(* rows db.add() has put in the session are still pending and the commit   *)
(* of the except clause inserts them.                                      *)
(***************************************************************************)

FailedReturn(error) ==
    [total_parsed |-> 0, existing_scores |-> 0, new_to_score |-> 0, error |-> error]

\* The except clause with the rows still pending in the session: its
\* db.commit() flushes them with the job row.  When that commit raises in
\* turn, the exception leaves process_ingest_job and the job stays running.
ExceptClause(t, pending, q, error) ==
    IF InsertConflict(pending, q)
    THEN [run   |-> [op |-> "ingested", file |-> t.file, before |-> t.before,
                     prepared |-> t.st.new, status |-> "running", ret |-> <<>>],
          queue |-> q]
    ELSE [run   |-> [op |-> "ingested", file |-> t.file, before |-> t.before,
                     prepared |-> t.st.new, status |-> "failed",
                     ret |-> FailedReturn(error)],
          queue |-> IF Len(pending) = 0 THEN q ELSE Inserted(pending, q)]

\* process_ingest_job up to the start of the loop, for a file with records.
\* before is history: the queue table when the run started.
IngestBegin(file) ==
    /\ runs["a"].op \in {"none", "ingested"}
    /\ Len(file) > 0
    /\ runs' = [runs EXCEPT !["a"] =
                   [op |-> "ingest", pc |-> "loop", file |-> file, i |-> 1,
                    before |-> queue,
                    st |-> [existing_count |-> 0, queued_count |-> 0,
                            new_count |-> 0, new |-> <<>>]]]
    /\ UNCHANGED <<queue, results, airtable, pa, last, terminated, aux>>

\* One pass of the loop; raises tells whether a lookup of the pass raises.
IngestPass(raises) ==
    /\ runs["a"].op = "ingest"
    /\ runs["a"].pc = "loop"
    /\ runs["a"].i <= Len(runs["a"].file)
    /\ IF raises
       THEN \E out \in {ExceptClause(runs["a"], runs["a"].st.new, queue,
                                      "OperationalError")} :
               /\ runs' = [runs EXCEPT !["a"] = out.run]
               /\ queue' = out.queue
       ELSE /\ runs' = [runs EXCEPT
                           !["a"].st = DedupStep(@, runs["a"].file[runs["a"].i],
                                                 queue, results),
                           !["a"].i = @ + 1]
            /\ UNCHANGED queue
    /\ UNCHANGED <<results, airtable, pa, last, terminated, aux>>

\* db.commit() of the new rows.  It raises on a key conflict or when the
\* store does (raises); the session is then rolled back and holds no row.
IngestQueueCommit(raises) ==
    /\ runs["a"].op = "ingest"
    /\ runs["a"].pc = "loop"
    /\ runs["a"].i > Len(runs["a"].file)
    /\ IF raises \/ InsertConflict(runs["a"].st.new, queue)
       THEN \E out \in {ExceptClause(runs["a"], <<>>, queue,
                                      IF raises THEN "OperationalError"
                                      ELSE "IntegrityError")} :
               /\ runs' = [runs EXCEPT !["a"] = out.run]
               /\ queue' = out.queue
       ELSE /\ runs' = [runs EXCEPT !["a"].pc = "job"]
            /\ queue' = IF Len(runs["a"].st.new) = 0 THEN queue
                        ELSE Inserted(runs["a"].st.new, queue)
    /\ UNCHANGED <<results, airtable, pa, last, terminated, aux>>

\* job.status = 'completed', the counts, and db.commit() of the job row.
IngestJobCommit(raises) ==
    /\ runs["a"].op = "ingest"
    /\ runs["a"].pc = "job"
    /\ IF raises
       THEN runs' = [runs EXCEPT !["a"] =
                        ExceptClause(runs["a"], <<>>, queue, "OperationalError").run]
       ELSE runs' = [runs EXCEPT !["a"] =
                        [op |-> "ingested", file |-> runs["a"].file,
                         before |-> runs["a"].before,
                         prepared |-> runs["a"].st.new, status |-> "completed",
                         ret |-> [total_parsed |-> Len(runs["a"].file),
                                  existing_scores |-> runs["a"].st.existing_count,
                                  new_to_score |-> runs["a"].st.new_count,
                                  error |-> "None"]]]
    /\ UNCHANGED <<queue, results, airtable, pa, last, terminated, aux>>

StoreErrorNext ==
    \/ \E file \in Files : IngestBegin(file)
    \/ \E raises \in BOOLEAN : IngestPass(raises)
    \/ \E raises \in BOOLEAN : IngestQueueCommit(raises)
    \/ \E raises \in BOOLEAN : IngestJobCommit(raises)

StoreErrorSpec == Init /\ [][StoreErrorNext]_vars

----------------------------------------------------------------------------
(* Keyword matching on texts *)

\* str.count(sub) for a non-empty sub: the occurrences that do not overlap,
\* counted from the left
RECURSIVE count(_, _)
count(content, k) ==
    LET at == {p \in 1..(Len(content) - Len(k) + 1) :
                 SubSeq(content, p, p + Len(k) - 1) = k}
    IN IF at = {} THEN 0
       ELSE LET p == CHOOSE p \in at : \A q \in at : p <= q
            IN 1 + count(SubSeq(content, p + Len(k), Len(content)), k)

\* sum(content.count(k) for k in kws)
RECURSIVE sum_counts(_, _, _)
sum_counts(content, kws, i) ==
    IF i > Len(kws) THEN 0
    ELSE count(content, kws[i]) + sum_counts(content, kws, i + 1)

\* scoring_service.get_default_mapping(): the items of the dict, in order
get_default_mapping ==
    << <<"Mobility", <<"mobility", "wheel", "track", "locomotion", "navigation",
                       "autonomous", "terrain">> >>,
       <<"Sensing", <<"sensor", "camera", "lidar", "radar", "detection", "imaging",
                      "sonar">> >>,
       <<"Manipulation", <<"manipulator", "arm", "gripper", "actuator",
                           "end effector", "grasping">> >>,
       <<"Control", <<"control", "controller", "algorithm", "processing",
                      "computing", "software">> >>,
       <<"Power", <<"power", "battery", "energy", "charging", "fuel", "generator">> >>,
       <<"Communication", <<"communication", "wireless", "telemetry",
                            "data transmission", "network">> >>,
       <<"Demining", <<"mine", "explosive", "demining", "clearance", "ordnance",
                       "UXO", "IED">> >> >>

\* The loop "for subsystem, kws in mapping.items()" of scorer.keyword_score
RECURSIVE KeywordLoop(_, _, _, _)
KeywordLoop(st, content, mapping, i) ==
    IF i > Len(mapping) THEN st
    ELSE LET n == sum_counts(content, mapping[i][2], 1)
         IN KeywordLoop(IF n > 0
                        THEN [subsystems    |-> Append(st.subsystems, mapping[i][1]),
                              total_matches |-> st.total_matches + n]
                        ELSE st,
                        content, mapping, i + 1)

\* Mutant of text_keyword_score: relevance High needs more than three matches.
text_keyword_score_above_three(title, abstract, mapping) ==
    LET content == lower(title \o " " \o abstract \o " ")
        st      == KeywordLoop([subsystems |-> <<>>, total_matches |-> 0],
                               content, mapping, 1)
    IN [Relevance |-> IF st.total_matches > 3 THEN "High"
                      ELSE IF st.total_matches >= 1 THEN "Medium"
                      ELSE "Low",
        Subsystem |-> st.subsystems]

\* scorer.keyword_score(title=, abstract=, mapping=) computed on the text
\* (text is '', mapping is not empty)
text_keyword_score(title, abstract, mapping) ==
    LET content == lower(title \o " " \o abstract \o " ")
        st      == KeywordLoop([subsystems |-> <<>>, total_matches |-> 0],
                               content, mapping, 1)
    IN [Relevance |-> IF st.total_matches >= 3 THEN "High"
                      ELSE IF st.total_matches >= 1 THEN "Medium"
                      ELSE "Low",
        Subsystem |-> st.subsystems]

\* re.sub(r'\s+', ' ', s), for the characters lo..hi of s: every run of
\* whitespace becomes one space, that is, a whitespace character becomes a
\* space when it opens a run and nothing when it continues one.
RECURSIVE sub_whitespace(_, _, _)
sub_whitespace(s, lo, hi) ==
    IF lo > hi THEN ""
    ELSE IF lo = hi
         THEN IF SubSeq(s, lo, lo) \notin Whitespace THEN SubSeq(s, lo, lo)
              ELSE IF lo > 1 /\ SubSeq(s, lo - 1, lo - 1) \in Whitespace THEN ""
              ELSE " "
    ELSE LET h == (lo + hi) \div 2
         IN sub_whitespace(s, lo, h) \o sub_whitespace(s, h + 1, hi)

\* matcher.normalize_text
normalize_text(text) ==
    IF text = "" THEN ""
    ELSE LET t == strip(lower(text)) IN sub_whitespace(t, 1, Len(t))

\* wildcard_to_regex: re.escape makes every character but * and ? match
\* itself, * becomes ".*", ? becomes ".", the pattern is prefixed with \b and
\* compiled with re.IGNORECASE.  The body is the list of its atoms.
wildcard_to_regex(pattern) ==
    [boundary   |-> TRUE,
     ignorecase |-> TRUE,
     body       |-> [i \in 1..Len(pattern) |->
                        LET c == SubSeq(pattern, i, i) IN
                        IF c = "*" THEN [atom |-> ".*"]
                        ELSE IF c = "?" THEN [atom |-> "."]
                        ELSE [atom |-> "char", c |-> c]]]

\* The length of the match of the atoms from i on at the start of s, as the
\* backtracking matcher finds it (".*" takes the longest run that lets the
\* rest match; no text here holds a newline), or -1.
RECURSIVE regex_match(_, _, _)
regex_match(regex, i, s) ==
    IF i > Len(regex.body) THEN 0
    ELSE LET a == regex.body[i] IN
         IF a.atom = ".*"
         THEN LET runs_ok == {n \in 0..Len(s) :
                                regex_match(regex, i + 1, SubSeq(s, n + 1, Len(s))) >= 0}
              IN IF runs_ok = {} THEN -1
                 ELSE LET n == CHOOSE n \in runs_ok : \A m \in runs_ok : m <= n
                      IN n + regex_match(regex, i + 1, SubSeq(s, n + 1, Len(s)))
         ELSE IF Len(s) = 0 THEN -1
         ELSE IF a.atom = "char" /\ (IF regex.ignorecase
                                      THEN lower_char(Head(s)) # lower_char(a.c)
                                      ELSE Head(s) # a.c)
         THEN -1
         ELSE LET r == regex_match(regex, i + 1, Tail(s))
              IN IF r >= 0 THEN 1 + r ELSE -1

WordChars ==
    LET w == "abcdefghijklmnopqrstuvwxyzABCDEFGHIJKLMNOPQRSTUVWXYZ0123456789_"
    IN {SubSeq(w, i, i) : i \in 1..Len(w)}

\* \b before position pos of text
at_boundary(text, pos) ==
    LET before == pos > 1 /\ SubSeq(text, pos - 1, pos - 1) \in WordChars
        after  == pos <= Len(text) /\ SubSeq(text, pos, pos) \in WordChars
    IN before # after

\* The length of the match that starts at position p of text, or -1
match_at(regex, text, p) ==
    IF regex.boundary /\ ~at_boundary(text, p) THEN -1
    ELSE regex_match(regex, 1, SubSeq(text, p, Len(text)))

\* regex.findall(text): the matches that do not overlap, from the left; the
\* search goes on from pos, found holds the matches before it.
RECURSIVE findall(_, _, _, _)
findall(regex, text, pos, found) ==
    LET starts == {p \in pos..(Len(text) + 1) : match_at(regex, text, p) >= 0}
    IN IF starts = {} THEN found
       ELSE LET p   == CHOOSE p \in starts : \A q \in starts : p <= q
                len == match_at(regex, text, p)
            IN findall(regex, text, IF len = 0 THEN p + 1 ELSE p + len,
                       Append(found, SubSeq(text, p, p + len - 1)))

\* matcher.DEFAULT_KEYWORD_MAP: the items of the dict, in order
DEFAULT_KEYWORD_MAP ==
    << <<"Detection", <<"sensor*", "detect*", "radar", "lidar", "ultrasonic",
                        "metal detect*", "gpr", "ground penetrat*", "imaging",
                        "thermal", "infrared", "camera*", "vision">> >>,
       <<"Mobility", <<"track*", "wheel*", "propul*", "locomot*", "terrain",
                       "navigation", "path*", "obstacle", "chassis", "suspension",
                       "drive*", "motor*", "actuator*">> >>,
       <<"Manipulation", <<"arm", "gripper", "manipulat*", "end effector",
                           "pick*", "grasp*", "tool*", "excavat*", "dig*">> >>,
       <<"Control", <<"autonom*", "control*", "algorithm*", "ai", "machine learning",
                      "neural", "computer vision", "slam", "localization",
                      "remote*", "teleoperat*", "wireless">> >>,
       <<"Safety", <<"safety", "protect*", "shield*", "armor*", "blast",
                     "explo*", "hazard*", "risk*", "emergency">> >>,
       <<"Power", <<"battery", "power", "energy", "fuel", "solar",
                    "charging", "electrical", "voltage", "current">> >> >>

\* The loop "for pattern in patterns" of match_keywords: found holds the
\* matches of the pattern; those not yet in subsystem_matches are appended.
RECURSIVE PatternLoop(_, _, _, _)
PatternLoop(subsystem_matches, normalized_text, patterns, i) ==
    IF i > Len(patterns) THEN subsystem_matches
    ELSE LET found == findall(wildcard_to_regex(patterns[i]), normalized_text, 1, <<>>)
             seen(m) == \E j \in DOMAIN subsystem_matches : subsystem_matches[j] = m
             fresh(m) == ~seen(m)
         IN PatternLoop(subsystem_matches \o SelectSeq(found, fresh),
                        normalized_text, patterns, i + 1)

\* matcher.match_keywords(text, keyword_map, min_matches): the items of the
\* dict returned, in order
RECURSIVE match_keywords(_, _, _, _)
match_keywords(text, keyword_map, min_matches, i) ==
    IF i > Len(keyword_map) THEN <<>>
    ELSE LET subsystem_matches ==
                 PatternLoop(<<>>, normalize_text(text), keyword_map[i][2], 1)
         IN (IF Len(subsystem_matches) >= min_matches
             THEN << <<keyword_map[i][1], subsystem_matches>> >> ELSE <<>>)
            \o match_keywords(text, keyword_map, min_matches, i + 1)

RECURSIVE sum_len(_, _)
sum_len(matches, i) ==
    IF i > Len(matches) THEN 0
    ELSE Len(matches[i][2]) + sum_len(matches, i + 1)

\* matcher.classify_relevance with the default thresholds
classify_relevance(title, abstract, keyword_map) ==
    LET combined_text == title \o " " \o abstract
        matches == match_keywords(combined_text, keyword_map, 1, 1)
        subsystems == [i \in DOMAIN matches |-> matches[i][1]]
        total_keyword_matches == sum_len(matches, 1)
    IN << IF total_keyword_matches >= 3 THEN "High"
          ELSE IF total_keyword_matches >= 1 THEN "Medium"
          ELSE "Low",
          subsystems >>

\* Arguments of the classifiers and of the matcher
MatchTitles == {"", "Robotic Arm", "UXO clearance", "Mine Detection Robot"}

MatchAbstracts ==
    {"", "determine", "undetected", "DETECTION  detector", "radar and radar",
     "gripper manipulator end effector for grasping objects",
     "Uses radar and lidar sensors for detection."}

MatchPatterns == {"detect*", "mine", "end effector", "?ine"}

MatchTexts ==
    {"detection", "detector", "DETECTION", " Detector ", "undetected",
     "determine", "a mine", "Land  MINE.", "rear end\teffector"}

\* The calls that have not returned
MatchCalls ==
    [fn : {"keyword_score", "classify_relevance"},
     title : MatchTitles, abstract : MatchAbstracts, returned : {FALSE}]
    \cup [fn : {"findall"}, pattern : MatchPatterns, text : MatchTexts,
          returned : {FALSE}]

Returned(c, ret) ==
    [x \in (DOMAIN c) \cup {"ret"} |->
        IF x = "ret" THEN ret ELSE IF x = "returned" THEN TRUE ELSE c[x]]

MatchInit ==
    /\ queue = <<>>
    /\ results = <<>>
    /\ airtable = [id \in Ids |-> 0]
    /\ pa = Idle
    /\ last = [op |-> "init"]
    /\ terminated = {}
    /\ runs = [w \in Runs |-> NoRun]
    /\ call \in MatchCalls
    /\ cache = <<>>
    /\ deploy = FirstDeploy

\* score_patent in mode keyword with the default mapping
KeywordScoreCall ==
    /\ call.fn = "keyword_score" /\ ~call.returned
    /\ call' = Returned(call, text_keyword_score(call.title, call.abstract,
                                                 get_default_mapping))
    /\ UNCHANGED <<queue, results, airtable, pa, last, terminated, runs, cache, deploy>>

ClassifyCall ==
    /\ call.fn = "classify_relevance" /\ ~call.returned
    /\ call' = Returned(call, classify_relevance(call.title, call.abstract,
                                                 DEFAULT_KEYWORD_MAP))
    /\ UNCHANGED <<queue, results, airtable, pa, last, terminated, runs, cache, deploy>>

\* wildcard_to_regex(pattern).findall(normalize_text(text))
FindallCall ==
    /\ call.fn = "findall" /\ ~call.returned
    /\ call' = Returned(call, findall(wildcard_to_regex(call.pattern),
                                      normalize_text(call.text), 1, <<>>))
    /\ UNCHANGED <<queue, results, airtable, pa, last, terminated, runs, cache, deploy>>

MatchNext == KeywordScoreCall \/ ClassifyCall \/ FindallCall

MatchSpec == MatchInit /\ [][MatchNext]_vars

----------------------------------------------------------------------------
(* Local score cache *)

\* The table scores of src/db.py has PRIMARY KEY patent_id: cache maps a
\* patent_id to its one row.

\* json.dumps of a list of strings without quotes or backslashes
RECURSIVE json_items(_)
json_items(subsystem) ==
    IF Len(subsystem) = 0 THEN ""
    ELSE IF Len(subsystem) = 1 THEN "\"" \o subsystem[1] \o "\""
    ELSE "\"" \o subsystem[1] \o "\", " \o json_items(Tail(subsystem))

json_dumps(subsystem) == "[" \o json_items(subsystem) \o "]"

\* json.loads of such a text: item is the string being read (<<>> outside
\* of a string), out the list read so far
RECURSIVE json_read(_, _, _)
json_read(text, item, out) ==
    IF Len(text) = 0 THEN out
    ELSE IF Head(text) = "\""
         THEN IF item = <<>> THEN json_read(Tail(text), <<"">>, out)
              ELSE json_read(Tail(text), <<>>, Append(out, item[1]))
    ELSE IF item = <<>> THEN json_read(Tail(text), item, out)
    ELSE json_read(Tail(text), <<item[1] \o Head(text)>>, out)

json_loads(text) == json_read(text, <<>>, <<>>)

\* check_if_scored: the list of the tuples returned, empty for None
check_if_scored(c, patent_id, abstract_sha1) ==
    IF patent_id \in DOMAIN c /\ c[patent_id].abstract_sha1 = abstract_sha1
    THEN << <<c[patent_id].relevance,
              IF c[patent_id].subsystem # "" THEN json_loads(c[patent_id].subsystem)
              ELSE <<>> >> >>
    ELSE <<>>

\* INSERT OR REPLACE INTO scores: a row with the same patent_id is replaced
StoredCache(c, patent_id, abstract_sha1, relevance, subsystem) ==
    Put(c, patent_id, [abstract_sha1 |-> abstract_sha1, relevance |-> relevance,
                       subsystem |-> json_dumps(subsystem)])

CachePatentIds == {"P1", "P2"}
CacheFingerprints == {"3f2a", "9c1b"}
CacheSubsystems == {<<>>, <<"Sensing">>, <<"Sensing", "Demining">>}

store_result(patent_id, abstract_sha1, relevance, subsystem) ==
    /\ cache' = StoredCache(cache, patent_id, abstract_sha1, relevance, subsystem)
    /\ call' = [fn |-> "store_result", patent_id |-> patent_id,
                abstract_sha1 |-> abstract_sha1, relevance |-> relevance,
                subsystem |-> subsystem]
    /\ UNCHANGED <<queue, results, airtable, pa, last, terminated, runs, deploy>>

CheckIfScored(patent_id, abstract_sha1) ==
    /\ call' = [fn |-> "check_if_scored", patent_id |-> patent_id,
                abstract_sha1 |-> abstract_sha1,
                ret |-> check_if_scored(cache, patent_id, abstract_sha1)]
    /\ UNCHANGED <<queue, results, airtable, pa, last, terminated, runs, cache, deploy>>

CacheNext ==
    \/ \E patent_id \in CachePatentIds, abstract_sha1 \in CacheFingerprints,
          relevance \in {"High", "Low"}, subsystem \in CacheSubsystems :
          store_result(patent_id, abstract_sha1, relevance, subsystem)
    \/ \E patent_id \in CachePatentIds, abstract_sha1 \in CacheFingerprints :
          CheckIfScored(patent_id, abstract_sha1)

CacheSpec == Init /\ [][CacheNext]_vars

----------------------------------------------------------------------------
(* The retry loop of the external-model classifier *)

\* What one attempt gets: openai.chat.completions.create raises, or
\* json.loads raises on the content, or the content is the JSON value
\* result.  A JSON object is a function on its keys; the value of Subsystem
\* is a list or something else.
JsonList(items) == [list |-> TRUE, items |-> items]
NotAList == [list |-> FALSE]

Answers ==
    {[kind |-> "api_error"], [kind |-> "not_json"]}
    \cup {[kind |-> "json", result |-> [Relevance |-> r, Subsystem |-> l]] :
            r \in {"High", "Medium", "Low", "Unknown"},
            l \in {JsonList(<<>>), JsonList(<<"Detection">>), NotAList}}
    \cup {[kind |-> "json", result |-> [Relevance |-> "High"]]}

\* The condition under which the loop does not raise ValueError
well_formed(result) ==
    /\ "Relevance" \in DOMAIN result
    /\ "Subsystem" \in DOMAIN result
    /\ result.Relevance \in {"High", "Medium", "Low"}
    /\ result.Subsystem.list

\* if result["Relevance"] == "Low": result["Subsystem"] = []
LowHasNoSubsystem(result) ==
    IF result.Relevance = "Low" THEN [result EXCEPT !.Subsystem = JsonList(<<>>)]
    ELSE result

\* 2 ** attempt
RECURSIVE pow2(_)
pow2(n) == IF n = 0 THEN 1 ELSE 2 * pow2(n - 1)

\* The exception an attempt ends with when it does not return
ErrorOf(answer) ==
    IF answer.kind = "api_error" THEN "APIError"
    ELSE IF answer.kind = "not_json" THEN "JSONDecodeError"
    ELSE "ValueError"

\* get_relevance_score is called: attempt is the loop variable, made counts
\* the requests sent, slept the seconds of back-off, e is the exception
\* caught last.
RetryStart(title, max_retries) ==
    /\ call.fn = "get_relevance_score" => call.pc \in {"returned", "raised"}
    /\ call' = [fn |-> "get_relevance_score", title |-> title,
                max_retries |-> max_retries,
                attempt |-> 0, made |-> 0, slept |-> 0, e |-> "None",
                pc |-> "loop", ret |-> <<>>]
    /\ UNCHANGED <<queue, results, airtable, pa, last, terminated, runs, cache, deploy>>

\* One pass of "for attempt in range(max_retries)"
RetryAttempt(answer) ==
    /\ call.fn = "get_relevance_score"
    /\ call.pc = "loop"
    /\ call.attempt < call.max_retries
    /\ IF answer.kind = "json" /\ well_formed(answer.result)
       THEN call' = [call EXCEPT !.made = @ + 1, !.pc = "returned",
                                 !.ret = <<LowHasNoSubsystem(answer.result)>>]
       ELSE IF call.attempt = call.max_retries - 1
       THEN call' = [call EXCEPT !.made = @ + 1, !.pc = "raised",
                                 !.e = ErrorOf(answer),
                                 !.ret = <<"APIRateLimitError">>]
       ELSE call' = [call EXCEPT !.made = @ + 1, !.attempt = @ + 1,
                                 !.e = ErrorOf(answer),
                                 !.slept = @ + pow2(call.attempt)]
    /\ UNCHANGED <<queue, results, airtable, pa, last, terminated, runs, cache, deploy>>

\* range(max_retries) is exhausted without a return or a raise: the function
\* body ends and the call returns None.
RetryFallThrough ==
    /\ call.fn = "get_relevance_score"
    /\ call.pc = "loop"
    /\ call.attempt >= call.max_retries
    /\ call' = [call EXCEPT !.pc = "returned", !.ret = <<>>]
    /\ UNCHANGED <<queue, results, airtable, pa, last, terminated, runs, cache, deploy>>

RetryNext ==
    \/ \E title \in MatchTitles, max_retries \in 0..MaxRetries :
          RetryStart(title, max_retries)
    \/ \E answer \in Answers : RetryAttempt(answer)
    \/ RetryFallThrough

RetrySpec == Init /\ [][RetryNext]_vars

----------------------------------------------------------------------------
(* Properties *)

IsIngest(l) == l.op = "ingest"
IsBatch(l)  == l.op = "batch"

FileKeys(file) == {KeyOf(file[i]) : i \in DOMAIN file}

\* The keys that occur at least twice in the file
DuplicatedKeys(file) ==
    {KeyOf(file[i]) : i \in {x \in DOMAIN file :
                                \E y \in DOMAIN file : y # x /\ KeyOf(file[y]) = KeyOf(file[x])}}

\* C1: running process_ingest_job twice in succession on the same file leaves
\* the number of QueueItems and the number of Results after the second run
\* equal to their numbers after the first run.
C1_ReingestIdempotent ==
    [][(IsIngest(last') /\ last'.again)
         => /\ Cardinality(DOMAIN queue') = Cardinality(DOMAIN queue)
            /\ Cardinality(DOMAIN results') = Cardinality(DOMAIN results)]_vars

\* A second run on a two-record file has completed and found every record.
C1_Witness ==
    /\ IsIngest(last) /\ last.again
    /\ Len(last.file) >= 2
    /\ last.ret.error = "None"
    /\ last.ret.new_to_score = 0
    /\ FileKeys(last.file) \subseteq DOMAIN queue

\* C2: when a file holds a document two or more times and the document is in
\* neither store, the run does not fail, creates exactly one pending QueueItem
\* for it, and new_to_score counts it once (new_to_score is the number of
\* distinct keys of the file that were in neither store: 1 in the scenario).
C2_DuplicateRowsEnqueuedOnce ==
    [][(IsIngest(last')
        /\ \E k \in DuplicatedKeys(last'.file) : k \notin DOMAIN queue /\ k \notin DOMAIN results)
         => /\ last'.ret.error = "None"
            /\ \A k \in DuplicatedKeys(last'.file) :
                  (k \notin DOMAIN queue /\ k \notin DOMAIN results)
                     => k \in DOMAIN queue' /\ queue'[k].status = "pending"
            /\ last'.ret.new_to_score =
                  Cardinality(FileKeys(last'.file) \ (DOMAIN queue \cup DOMAIN results))
            /\ Cardinality(DOMAIN queue') = Cardinality(DOMAIN queue) + last'.ret.new_to_score]_vars

\* The outcome the Dedup Gate takes for record i of a file, each record
\* handled against the stores as they are when its turn comes.
GateOutcome(file, i, q, r) ==
    IF KeyOf(file[i]) \in DOMAIN r THEN "existing"
    ELSE IF KeyOf(file[i]) \in DOMAIN q
            \/ \E j \in 1..(i - 1) : KeyOf(file[j]) = KeyOf(file[i])
    THEN "queued"
    ELSE "new"

GateCount(file, q, r, outcome) ==
    Cardinality({i \in DOMAIN file : GateOutcome(file, i, q, r) = outcome})

\* C3: every Document of a run takes exactly one of the three outcomes: key in
\* Results -> existing counter, nothing created; else key in the Queue (any
\* status) -> queued-duplicate counter, nothing created; else one pending
\* QueueItem is created and the newly-enqueued counter incremented.
C3_GateThreeOutcomes ==
    [][(IsIngest(last') /\ Len(last'.file) > 0)
         => /\ last'.job.status = "completed"
            /\ last'.job.log = <<"Parsed", Len(last'.file),
                                 GateCount(last'.file, queue, results, "existing"),
                                 GateCount(last'.file, queue, results, "queued"),
                                 GateCount(last'.file, queue, results, "new")>>
            /\ last'.ret.existing_scores = GateCount(last'.file, queue, results, "existing")
            /\ last'.ret.new_to_score = GateCount(last'.file, queue, results, "new")
            /\ DOMAIN queue' = DOMAIN queue \cup
                  {KeyOf(last'.file[i]) : i \in {x \in DOMAIN last'.file :
                        GateOutcome(last'.file, x, queue, results) = "new"}}
            /\ \A k \in DOMAIN queue : queue'[k] = queue[k]
            /\ \A k \in DOMAIN queue' \ DOMAIN queue : queue'[k].status = "pending"]_vars

\* C4: no QueueItem that has been in status scored, skipped or error is in
\* status pending afterwards, whatever operations ran in between.
C4_NeverBackToPending ==
    \A k \in terminated : k \in DOMAIN queue => queue[k].status # "pending"

\* A document whose QueueItem is scored, skipped or error has just been
\* ingested again and its QueueItem kept its status.
C4_Witness ==
    /\ IsIngest(last)
    /\ last.ret.error = "None"
    /\ \E i \in DOMAIN last.file :
          /\ KeyOf(last.file[i]) \in terminated
          /\ KeyOf(last.file[i]) \in DOMAIN queue
          /\ KeyOf(last.file[i]) \notin DOMAIN results

\* C5: the only status changes of a QueueItem are pending->scored,
\* pending->skipped and pending->error; in particular a skip request leaves
\* the status of a scored or error item unchanged.
C5_OnlyPendingChanges ==
    [][\A k \in DOMAIN queue \cap DOMAIN queue' :
          queue'[k].status # queue[k].status
             => queue[k].status = "pending" /\ queue'[k].status \in Terminal]_vars

\* C6: process_all_pending terminates, for every queue, batch_size and pattern
\* of classifier failures (nothing else runs meanwhile): its loop never
\* blocks, every call after which the loop goes on has taken an item out of
\* pending, and so it makes at most n + 1 process_queue_batch calls, n the
\* number of pending QueueItems when it started.
C6_ProcessAllTerminates ==
    /\ pa.pc = "call"  => /\ ENABLED ProcessAllCall
                          /\ Cardinality(Pending(queue)) + pa.calls <= pa.pending_at_start
    /\ pa.pc = "check" => /\ ENABLED ProcessAllCheck
                          /\ pa.batch_stats.processed > 0
                                => Cardinality(Pending(queue)) + pa.calls <= pa.pending_at_start
    /\ pa.pc # "idle"  => pa.calls <= pa.pending_at_start + 1

\* process_all_pending has returned after three calls with batch_size 1: two
\* that classified an item each, and the last one.
C6_Witness ==
    /\ last.op = "process_all"
    /\ last.batch_size = 1
    /\ last.calls = 3
    /\ last.ret.processed = 2

\* C7: a process_queue_batch call that pulls at least one item ends with
\* strictly fewer pending QueueItems: each pulled item went from pending to
\* scored or error.
C7_BatchShrinksPending ==
    [][(IsBatch(last') /\ last'.pulled # {})
         => /\ Cardinality(Pending(queue')) < Cardinality(Pending(queue))
            /\ \A k \in last'.pulled :
                  /\ queue[k].status = "pending"
                  /\ k \in DOMAIN queue'
                  /\ queue'[k].status \in {"scored", "error"}]_vars

\* A batch has run in which every pulled item made the classifier fail.
C7_Witness ==
    /\ IsBatch(last)
    /\ last.pulled # {}
    /\ last.failing = last.pulled
    /\ Pending(queue) # {}

\* C8: when process_all_pending returns, no QueueItem has status pending.
C8_ProcessAllDrainsQueue ==
    last.op = "process_all" => Pending(queue) = {}

\* The relevance the classifier gives the queue row with key k
RelevanceOf(k, mode) ==
    score_patent(queue[k].title, queue[k].abstract, mode).relevance

\* C9 as stated: every item a batch classified successfully has a Result row
\* after the commit, whatever its relevance and the min_relevance passed, and
\* its status is scored.
C9_ResultForEveryClassified ==
    IsBatch(last) =>
        \A k \in last.pulled \ last.failing :
            /\ k \in DOMAIN results
            /\ queue[k].status = "scored"

\* C9 amended: every item a batch classified successfully has status scored,
\* and it has a Result row (with the relevance the classifier gave) exactly
\* when rank(relevance) >= rank(min_relevance), High=3 > Medium=2 > Low=1, an
\* unrecognized min_relevance counting as Medium.
C9_ResultIffAboveThreshold ==
    IsBatch(last) =>
        \A k \in last.pulled \ last.failing :
            /\ queue[k].status = "scored"
            /\ (k \in DOMAIN results)
                  <=> (RelevanceOrder(RelevanceOf(k, last.mode))
                          >= (IF last.min_relevance \in {"High", "Medium", "Low"}
                              THEN RelevanceOrder(last.min_relevance) ELSE 2))
            /\ k \in DOMAIN results
                  => results[k].relevance = RelevanceOf(k, last.mode)

\* One batch has classified two items: one got a Result, the other was
\* below min_relevance and got none.
C9_Witness ==
    /\ IsBatch(last)
    /\ \E k \in last.pulled \ last.failing : k \in DOMAIN results
    /\ \E k \in last.pulled \ last.failing : k \notin DOMAIN results

\* C10: a classifier failure on one item of a batch is contained: the item
\* ends in status error, errors counts it once, no Result is created for it,
\* and the tables and the other counters are what the batch would have
\* produced had the failing item not been pulled.
C10_FailureContained ==
    [][IsBatch(last')
         => \A f \in last'.failing :
               \E alt \in {BatchOutcome(queue, results, last'.pulled \ {f},
                                        last'.failing \ {f}, last'.min_relevance,
                                        last'.mode)} :
                  /\ queue'[f].status = "error"
                  /\ f \notin DOMAIN results'
                  /\ results' = alt.results
                  /\ \A k \in DOMAIN queue' \ {f} : queue'[k] = alt.queue[k]
                  /\ last'.ret = [alt.stats EXCEPT !.errors = @ + 1]]_vars

\* A batch of two items has run: one made the classifier fail, the other was
\* classified and stored.
C10_Witness ==
    /\ IsBatch(last)
    /\ Cardinality(last.pulled) >= 2
    /\ \E f \in last.failing : queue[f].status = "error"
    /\ \E k \in last.pulled \ last.failing : k \in DOMAIN results

\* C11: process_queue_batch, called by the route or by process_all_pending,
\* pulls only items in status pending: an item in status error, scored or
\* skipped is not passed to the classifier and its row is the same after the
\* batch run as before it.
C11_BatchLeavesTerminalItems ==
    [][IsBatch(last')
         => /\ \A k \in last'.pulled : k \in DOMAIN queue /\ queue[k].status = "pending"
            /\ \A k \in DOMAIN queue :
                  queue[k].status \in Terminal
                     => /\ k \notin last'.pulled
                        /\ k \in DOMAIN queue'
                        /\ queue'[k] = queue[k]]_vars

\* A batch run of process_all_pending has pulled an item while another item
\* of the queue was in status error: that item was left alone.
C11_Witness ==
    /\ IsBatch(last)
    /\ last.caller = "process_all"
    /\ last.pulled # {}
    /\ \E k \in DOMAIN queue \ last.pulled : queue[k].status = "error"

\* C12: the items a process_queue_batch call pulls are exactly the
\* min(batch_size, number of pending) oldest pending items by enqueue time: no
\* pulled item was enqueued later than a pending item the call left behind.
C12_OldestPendingFirst ==
    [][IsBatch(last')
         => /\ Cardinality(last'.pulled) =
                  (IF Cardinality(Pending(queue)) < last'.batch_size
                   THEN Cardinality(Pending(queue)) ELSE last'.batch_size)
            /\ \A k \in last'.pulled : \A j \in Pending(queue) \ last'.pulled :
                  queue[k].enqueued_at <= queue[j].enqueued_at]_vars

IsSync(l) == l.op = "sync" /\ l.ret.ok

\* C15: for every Low Result whose patent_id is in the set given to a sync
\* run, the run issues no lookup and no create for it (the remote table gets
\* no record for an id whose requested Results are all Low), and the
\* QueueItem with its key is absent after the run.
C15_LowNotPushedAndRetired ==
    [][IsSync(last')
         => \A k \in DOMAIN results :
               (results[k].patent_id \in last'.patent_ids /\ results[k].relevance = "Low")
                  => /\ \A i \in DOMAIN last'.scores : last'.scores[i] # k
                     /\ k \notin DOMAIN queue'
                     /\ (\A i \in DOMAIN last'.scores :
                            results[last'.scores[i]].patent_id # results[k].patent_id)
                           => airtable'[results[k].patent_id] = airtable[results[k].patent_id]]_vars

\* A sync run has created a remote record for one id and removed the
\* QueueItem of a Low Result of another id.
C15_Witness ==
    /\ IsSync(last)
    /\ last.ret.synced >= 1
    /\ last.ret.removed >= 1

\* C16: after any sequence of sync runs that do not overlap the remote table
\* holds at most one record per identifier, and a create is issued for a
\* selected Result only when the lookup of the same run answered and
\* reported no record.
C16_OneRecordPerIdentifier ==
    [][IsSync(last')
         => /\ \A id \in Ids : airtable'[id] <= 1
            /\ \A i \in DOMAIN last'.scores :
                  last'.ret.details[i].status = "synced"
                     => last'.remote[last'.scores[i]].lookup = "ok"]_vars

\* C19: a lookup that fails (a non-success response or an exception) is
\* recorded for its identifier: an error entry in details, counted in errors,
\* never counted as synced or skipped.
C19_FailedLookupRecorded ==
    [][IsSync(last')
         => /\ \A i \in DOMAIN last'.scores :
                  last'.remote[last'.scores[i]].lookup # "ok"
                     => last'.ret.details[i] =
                           [patent_id |-> results[last'.scores[i]].patent_id,
                            status    |-> "error"]
            /\ last'.ret.errors >=
                  Cardinality({i \in DOMAIN last'.scores :
                                  last'.remote[last'.scores[i]].lookup # "ok"})]_vars

\* C20: a sync run on the same patent_ids as the sync run before it, nothing
\* else in between, removes nothing (removed = 0), returns normally and leaves
\* the queue and the scores table as the first run left them.
C20_CleanupIdempotent ==
    [][(IsSync(last') /\ last'.again)
         => /\ last'.ret.removed = 0
            /\ queue' = queue
            /\ results' = results]_vars

\* The second of two sync runs on the same ids has returned, the first of
\* which had removed a QueueItem.
C20_Witness ==
    /\ IsSync(last)
    /\ last.again
    /\ last.first_removed >= 1
    /\ last.ret.removed = 0

\* C18: a remote failure for one selected Result does not abort the sync
\* run: every selected Result gets its entry in details (synced, skipped or
\* error), one that the remote service answers successfully is synced or
\* skipped even after an earlier one failed, the Low cleanup is done, and the
\* run returns its counters.
C18_RemoteFailureContained ==
    [][(last'.op = "sync" /\ last'.patent_ids # {})
         => /\ last'.ret.ok
            /\ Len(last'.scores) = Cardinality(SelectedScores(results, last'.patent_ids))
            /\ Len(last'.ret.details) = Len(last'.scores)
            /\ last'.ret.synced + last'.ret.skipped + last'.ret.errors = Len(last'.scores)
            /\ \A i \in DOMAIN last'.scores :
                  /\ last'.ret.details[i].patent_id = results[last'.scores[i]].patent_id
                  /\ last'.remote[last'.scores[i]] = [lookup |-> "ok", create |-> "ok"]
                        => last'.ret.details[i].status \in {"synced", "skipped"}
            /\ queue' = Drop(queue, LowScores(results, last'.patent_ids))
            /\ last'.ret.removed =
                  Cardinality(LowScores(results, last'.patent_ids) \cap DOMAIN queue)]_vars

\* A sync run has selected two Results: the first ended in an error entry,
\* the second was created after it, and the QueueItem of a Low Result was
\* removed.
C18_Witness ==
    /\ IsSync(last)
    /\ Len(last.scores) = 2
    /\ last.ret.details[1].status = "error"
    /\ last.ret.details[2].status = "synced"
    /\ last.ret.removed >= 1

\* C13: a Result is written once: once a row exists for a key, no step of any
\* interleaving of ingestion, batch, skip and sync runs, two batch runs in
\* flight at once included, changes its relevance, its subsystems or its
\* model_id.
C13_ResultWrittenOnce ==
    [][\A k \in DOMAIN results :
          /\ k \in DOMAIN results'
          /\ results'[k].relevance = results[k].relevance
          /\ results'[k].subsystem_json = results[k].subsystem_json
          /\ results'[k].model_id = results[k].model_id]_vars

\* C14: when two process_queue_batch runs are in flight at the same time, no
\* QueueItem has been pulled by both.
C14_PulledByOneRun ==
    (runs["a"].op = "batch" /\ runs["b"].op = "batch")
       => (DOMAIN runs["a"].loaded) \cap (DOMAIN runs["b"].loaded) = {}

\* C17: the create of a sync run relies on the lookup the run made before
\* it: it adds a record for the identifier whatever the remote table holds
\* by then and counts it as synced, so with two runs in flight that both
\* found nothing the table comes to hold two records for one identifier (the
\* witness).
C17_CreateDoesNotLookAgain ==
    [][\A w \in Runs :
          (runs[w].op = "sync" /\ runs[w].pc = "create" /\ runs'[w] # runs[w])
             => /\ airtable'[runs[w].ids[runs[w].i]] = airtable[runs[w].ids[runs[w].i]] + 1
                /\ runs'[w].synced = runs[w].synced + 1]_vars

\* Two sync runs in flight have each created a record for the same
\* identifier, and the remote table holds two records for it.
C17_Witness ==
    /\ runs["a"].op = "sync" /\ runs["b"].op = "sync"
    /\ runs["a"].synced = 1 /\ runs["b"].synced = 1
    /\ runs["a"].ids = runs["b"].ids
    /\ \E id \in Ids : airtable[id] = 2

\* The abstract as the fingerprint takes it: lowercased, whitespace runs
\* collapsed to one space, none at the ends
NormalizedAbstract(abstract) == join_split(lower(abstract), "", FALSE)

\* C21: compute_abstract_sha1 is a function of (patent_id, normalized
\* abstract, prompt_version): a call with the same patent_id and version and
\* an abstract that differs only in letter case or whitespace runs returns
\* the same digest, and a call in which exactly one of the patent_id, the
\* normalized abstract and the version is different returns another digest.
C21_FingerprintOfNormalizedTriple ==
    call.fn = "compute_abstract_sha1" =>
        \A patent_id \in HashPatentIds, abstract \in HashAbstracts,
           prompt_version \in PromptVersions :
           LET same_id  == patent_id = call.patent_id
               same_abs == NormalizedAbstract(abstract) = NormalizedAbstract(call.abstract)
               same_ver == prompt_version = call.prompt_version
               digest   == compute_abstract_sha1(patent_id, abstract, prompt_version)
           IN /\ (same_id /\ same_abs /\ same_ver) => digest = call.ret
              /\ (~same_id /\ same_abs /\ same_ver) => digest # call.ret
              /\ (same_id /\ ~same_abs /\ same_ver) => digest # call.ret
              /\ (same_id /\ same_abs /\ ~same_ver) => digest # call.ret

\* compute_abstract_sha1 has been called on an abstract with an upper-case
\* letter after a run of two spaces, and returned the digest of its
\* normalized form.
C21_Witness ==
    /\ call.fn = "compute_abstract_sha1"
    /\ call.abstract = "  A"
    /\ call.ret = compute_abstract_sha1(call.patent_id, "a", call.prompt_version)

\* The abstract of the document stored under key k
StoredAbstract(k) ==
    IF k \in DOMAIN queue THEN queue[k].abstract ELSE results[k].abstract

\* C22: the key of the dedup gate is the fingerprint.  When a file of one
\* document is ingested, a new queue item is created exactly when no stored
\* document (queued or scored) of the same patent_id has the same normalized
\* abstract and was stored under the PROMPT_VERSION now in force: a document
\* scored before the version changed is enqueued again, a document that
\* differs from a stored one in case or whitespace only is not.
C22_GateKeyIsFingerprint ==
    [][ (IsIngest(last') /\ last'.job.status = "completed" /\ Len(last'.file) = 1) =>
          LET rec  == last'.file[1]
              same == {k \in (DOMAIN queue \cup DOMAIN results) \ deploy.stored :
                         /\ k[1] = rec.patent_id
                         /\ NormalizedAbstract(StoredAbstract(k))
                               = NormalizedAbstract(rec.abstract)}
          IN (DOMAIN queue' # DOMAIN queue) <=> (same = {}) ]_vars

\* C23: every queue item has a non-empty patent_id and an abstract of at
\* least 10 characters after trimming, whether it comes from a CSV row or
\* from an XML document element.
C23_QueueItemsHaveIdAndAbstract ==
    \A k \in DOMAIN queue :
       /\ queue[k].patent_id # ""
       /\ Len(strip(queue[k].abstract)) >= 10

\* C24: when two ingestion runs have ended, in flight at once or not, both
\* are completed and every document of both files has a queue item or a
\* result: a create that hits the primary key counts as "already exists".
C24_RacingIngestsBothComplete ==
    (\A w \in Runs : runs[w].op = "ingested") =>
        \A w \in Runs :
           /\ runs[w].status = "completed"
           /\ \A i \in DOMAIN runs[w].file :
                 KeyOf(runs[w].file[i]) \in DOMAIN queue \cup DOMAIN results

\* The records of the .xml entries that can be opened, from entry i on
RECURSIVE ReadableEntryRecords(_, _)
ReadableEntryRecords(entries, i) ==
    IF i > Len(entries) THEN <<>>
    ELSE (IF endswith(lower(entries[i].name), ".xml") /\ entries[i].opens
          THEN parse_xml_stream(entries[i].stream, 1, <<>>) ELSE <<>>)
         \o ReadableEntryRecords(entries, i + 1)

\* C25: parse_file on a zip archive returns the records of every .xml entry
\* that can be opened, in the order of the entries, whatever happens to the
\* other entries: an entry that cannot be opened or parsed costs no record
\* of an entry before or after it.
C25_ZipEntriesIndependent ==
    (call.fn = "parse_file" /\ call.file.suffix = ".zip") =>
        call.ret = ReadableEntryRecords(call.file.content, 1)

\* The records of the document elements of the stream, from part i on
RECURSIVE ElementRecords(_, _)
ElementRecords(stream, i) ==
    IF i > Len(stream) THEN <<>>
    ELSE (IF stream[i].part = "element"
          THEN extract_record_from_xml(stream[i]) ELSE <<>>)
         \o ElementRecords(stream, i + 1)

\* C26: parse_file on an XML stream returns a record for every well-formed
\* document of the stream, before and after a part that is not well-formed
\* and before and after the declaration that opens a further single-root
\* document.
C26_MalformedPartCostsNothing ==
    (call.fn = "parse_file" /\ call.file.suffix = ".xml") =>
        call.ret = ElementRecords(call.file.content, 1)

\* The keyword occurs in the text
Occurs(text, k) ==
    \E p \in 1..(Len(text) - Len(k) + 1) : SubSeq(text, p, p + Len(k) - 1) = k

\* The elements of a list
Range(f) == {f[i] : i \in DOMAIN f}

RelevanceOfTotal(total) ==
    IF total >= 3 THEN "High" ELSE IF total >= 1 THEN "Medium" ELSE "Low"

\* The total match count of keyword_score: the occurrences of every keyword
\* of every tag
RECURSIVE TotalCount(_, _, _)
TotalCount(content, mapping, i) ==
    IF i > Len(mapping) THEN 0
    ELSE sum_counts(content, mapping[i][2], 1) + TotalCount(content, mapping, i + 1)

\* The total match count of classify_relevance: the matched strings of
\* every tag
RECURSIVE TotalMatched(_, _, _)
TotalMatched(text, keyword_map, i) ==
    IF i > Len(keyword_map) THEN 0
    ELSE Len(PatternLoop(<<>>, text, keyword_map[i][2], 1))
         + TotalMatched(text, keyword_map, i + 1)

OccursAtLeftBoundary(text, word) ==
    \E p \in 1..(Len(text) - Len(word) + 1) :
       /\ at_boundary(text, p)
       /\ lower(SubSeq(text, p, p + Len(word) - 1)) = lower(word)

\* C28: keywords match in any case and only at a left word boundary.  For
\* the matcher: 'detect*' and 'mine' are found in a text exactly when
\* 'detect' and 'mine' occur in it at a left word boundary, in any case
\* (found in 'detection', 'detector', 'DETECTION'; not in 'undetected', not
\* in 'determine').  For the classifier of the batch pipeline: a tag is
\* assigned exactly when one of its keywords occurs in title and abstract at
\* a left word boundary, in any case.
C28_MatchAtLeftBoundaryAnyCase ==
    /\ (call.fn = "findall" /\ call.returned /\ call.pattern \in {"detect*", "mine"}) =>
          ((call.ret # <<>>)
             <=> OccursAtLeftBoundary(call.text,
                                      IF call.pattern = "mine" THEN "mine" ELSE "detect"))
    /\ (call.fn = "keyword_score" /\ call.returned) =>
          LET content == call.title \o " " \o call.abstract
              mapping == get_default_mapping
          IN \A i \in DOMAIN mapping :
                mapping[i][1] \in Range(call.ret.Subsystem)
                  <=> \E j \in DOMAIN mapping[i][2] :
                         OccursAtLeftBoundary(content, mapping[i][2][j])

\* C29: the score cache keeps one row per (patent_id, fingerprint).  After
\* store_result(p, h, r, s), check_if_scored(p, h) returns (r, s), and the
\* store changes the answer of check_if_scored for no other key, the keys
\* of the same patent_id under another fingerprint included.
C29_CacheRowPerFingerprint ==
    [][ call'.fn = "store_result" =>
          /\ check_if_scored(cache', call'.patent_id, call'.abstract_sha1)
                = << <<call'.relevance, call'.subsystem>> >>
          /\ \A patent_id \in CachePatentIds, abstract_sha1 \in CacheFingerprints :
                <<patent_id, abstract_sha1>> # <<call'.patent_id, call'.abstract_sha1>>
                  => check_if_scored(cache', patent_id, abstract_sha1)
                       = check_if_scored(cache, patent_id, abstract_sha1) ]_vars

\* C30: get_relevance_score is a bounded retry loop for every max_retries
\* from 0 on: it sends at most max_retries requests, a call that has
\* returned has returned a well-formed result, a call that has raised has
\* sent max_retries requests, and a call in its loop can always go on.
C30_BoundedRetryWithResult ==
    call.fn = "get_relevance_score" =>
        /\ call.made <= call.max_retries
        /\ call.pc = "returned" => (Len(call.ret) = 1 /\ well_formed(call.ret[1]))
        /\ call.pc = "raised" => (call.made = call.max_retries
                                   /\ call.ret = <<"APIRateLimitError">>)
        /\ call.pc = "loop" => ENABLED (RetryFallThrough \/ \E answer \in Answers :
                                                                RetryAttempt(answer))

----------------------------------------------------------------------------
(* Reports and totals *)

\* The counters of the dict process_ingest_job returns: every entry but the
\* total and the error text
ReturnedCounters(ret) == DOMAIN ret \ {"total_parsed", "error"}

RECURSIVE SumFields(_, _)
SumFields(rec, fields) ==
    IF fields = {} THEN 0
    ELSE LET f == CHOOSE x \in fields : TRUE
         IN rec[f] + SumFields(rec, fields \ {f})

IsCompleted(l) == IsIngest(l) /\ l.job.status = "completed"

\* C31 as stated: the counters a completed ingestion run returns to its
\* caller sum to total_parsed.
C31_ReturnedCountersSumToParsed ==
    IsCompleted(last) =>
        SumFields(last.ret, ReturnedCounters(last.ret)) = last.ret.total_parsed

\* C31 amended: a completed ingestion run writes the three counters existing,
\* queued-duplicate and newly-enqueued to the job's log; they sum to the number
\* of parsed Documents, which is total_parsed; the dict it returns carries
\* existing and newly-enqueued (not queued-duplicate), the job row carries them
\* as matched_count and enqueued_count, and newly-enqueued is the number of
\* QueueItems the run added to the Queue.
C31_CountersInJobLog ==
    [][IsCompleted(last')
         => /\ last'.job.log[1] = "Parsed"
            /\ last'.job.log[2] = Len(last'.file)
            /\ last'.ret.total_parsed = Len(last'.file)
            /\ last'.job.log[3] + last'.job.log[4] + last'.job.log[5]
                  = last'.ret.total_parsed
            /\ last'.ret.existing_scores = last'.job.log[3]
            /\ last'.ret.new_to_score = last'.job.log[5]
            /\ last'.job.matched_count = last'.job.log[3]
            /\ last'.job.enqueued_count = last'.job.log[5]
            /\ ReturnedCounters(last'.ret) = {"existing_scores", "new_to_score"}
            /\ DOMAIN queue \subseteq DOMAIN queue'
            /\ Cardinality(DOMAIN queue' \ DOMAIN queue) = last'.ret.new_to_score]_vars

\* A completed run found one of its two records in the Queue and enqueued the
\* other.
C31_Witness ==
    /\ IsCompleted(last)
    /\ last.job.log[4] = 1
    /\ last.job.log[5] = 1
    /\ last.ret.total_parsed = 2

\* rank under High=3 > Medium=2 > Low=1
Rank(relevance) ==
    CASE relevance = "High" -> 3 [] relevance = "Medium" -> 2 [] relevance = "Low" -> 1

\* rank(min_relevance), an unrecognized min_relevance counting as Medium
MinRank(min_relevance) ==
    IF min_relevance \in {"High", "Medium", "Low"} THEN Rank(min_relevance) ELSE Rank("Medium")

\* The items of the batch l that were classified at or above its min_relevance,
\* by the row they had in the table q
AtOrAbove(l, q) ==
    {k \in l.pulled \ l.failing :
        Rank(score_patent(q[k].title, q[k].abstract, l.mode).relevance)
           >= MinRank(l.min_relevance)}

\* C32: process_queue_batch stores a Result for a successfully classified item
\* if and only if rank(relevance) >= rank(min_relevance); these items are
\* counted in scored, the other successfully classified items in filtered and
\* get no Result, and both kinds end in status scored.
C32_StoredIffRankedAndCounted ==
    [][IsBatch(last')
         => LET classified == last'.pulled \ last'.failing
                stored     == AtOrAbove(last', queue)
            IN /\ \A k \in classified :
                     /\ queue'[k].status = "scored"
                     /\ k \in stored => k \in DOMAIN results' /\ k \notin DOMAIN results
                     /\ k \notin stored => k \notin DOMAIN results'
               /\ DOMAIN results' \ DOMAIN results = stored
               /\ last'.ret.scored = Cardinality(stored)
               /\ last'.ret.filtered = Cardinality(classified \ stored)]_vars

\* A batch called with an unrecognized min_relevance has stored the Result of
\* one item and filtered the other.
C32_Witness ==
    /\ IsBatch(last)
    /\ last.min_relevance = "Any"
    /\ last.ret.scored = 1
    /\ last.ret.filtered = 1
    /\ \E k \in last.pulled : k \notin DOMAIN results /\ queue[k].status = "scored"

\* The QueueItems a batch classified below its min_relevance: marked scored,
\* no Result stored
FilteredItems(q, r) == {k \in DOMAIN q : q[k].status = "scored" /\ k \notin DOMAIN r}

\* C33: a QueueItem that a batch classified below min_relevance (marked
\* scored, no Result stored) is removed from the Queue by a later sync run
\* whose patent_ids include its external_id.
C33_FilteredItemRetiredBySync ==
    [][(IsSync(last') /\ last'.ret.ok)
         => \A k \in FilteredItems(queue, results) :
               queue[k].patent_id \in last'.patent_ids => k \notin DOMAIN queue']_vars

\* The strategy score_patent runs for a mode: "llm" is not implemented and
\* falls back to the keyword scorer
StrategyUsed(mode) == IF mode = "llm" THEN "keyword" ELSE mode

\* C34: the model_id recorded on a Result names the strategy that produced its
\* relevance and tags: a Result the keyword classifier produced is recorded as
\* keyword-scored, also when the batch was requested with mode "llm".
C34_ModelIdNamesStrategy ==
    [][IsBatch(last')
         => \A k \in last'.pulled \ last'.failing :
               k \in DOMAIN results'
                  => /\ results'[k].relevance
                           = keyword_score(queue[k].title, queue[k].abstract).Relevance
                     /\ results'[k].model_id = <<StrategyUsed(last'.mode), "-scorer">>]_vars

\* C35: the totals process_all_pending returns account for every item it took
\* out of pending: each counter is the sum of that counter over all the
\* batches it ran, the last one included, so processed + errors is the number
\* of QueueItems that left pending during the run.
C35_TotalsCoverEveryBatch ==
    [][last'.op = "process_all"
         => /\ last'.ret = AddStats(pa.total_stats, pa.batch_stats)
            /\ last'.ret.processed + last'.ret.errors
                  = pa.pending_at_start - Cardinality(Pending(queue'))]_vars

\* C36: an ingestion run is all-or-nothing on the Queue: when
\* process_ingest_job fails at any point, none of the QueueItems it prepared
\* is present that was not there before, the Queue equals its state before
\* the run, and the job ends failed with new_to_score reported as 0.
C36_FailedRunLeavesNothing ==
    (runs["a"].op = "ingested" /\ runs["a"].status # "completed")
        => /\ queue = runs["a"].before
           /\ \A i \in DOMAIN runs["a"].prepared :
                 RowKey(runs["a"].prepared[i]) \notin DOMAIN queue
           /\ results = <<>>
           /\ runs["a"].status = "failed"
           /\ runs["a"].ret.new_to_score = 0

\* C37: a key is enqueued at most once: an ingestion run creates a QueueItem
\* only for a key that is not in the Queue and whose QueueItem has not been
\* deleted before, whatever batch runs, skip requests and sync runs were
\* executed in between.  (terminated holds the key of every QueueItem that
\* has left pending; only such an item is ever deleted.)
C37_KeyEnqueuedAtMostOnce ==
    [][/\ \A k \in DOMAIN queue \ DOMAIN queue' : k \in terminated
       /\ \A k \in DOMAIN queue' \ DOMAIN queue :
             /\ IsIngest(last')
             /\ k \notin terminated
             /\ k \notin DOMAIN results]_vars

\* An ingestion run has met a document whose QueueItem a sync run had
\* deleted, and has not enqueued it again.
C37_Witness ==
    /\ IsIngest(last)
    /\ last.job.status = "completed"
    /\ \E k \in FileKeys(last.file) :
          k \in terminated /\ k \notin DOMAIN queue /\ k \in DOMAIN results

\* C38: under any interleaving of the steps of concurrent ingestion, batch and
\* sync runs, no key is at the same time present in Results and held by a
\* QueueItem in status pending.
C38_NoPendingKeyInResults ==
    \A k \in DOMAIN queue \cap DOMAIN results : queue[k].status # "pending"

\* C39: a sync run changes the local stores only by retiring disqualified
\* queue entries: it leaves the Results as they are, changes no QueueItem,
\* and deletes a QueueItem only if a Low Result with its key exists and its
\* patent_id is in the requested set (so the QueueItems of High and Medium
\* Results, of items without a Result and of other ids stay unchanged); no
\* other operation deletes a QueueItem.
C39_SyncOnlyRetiresLowItems ==
    [][/\ last'.op = "sync"
          => /\ results' = results
             /\ DOMAIN queue' \subseteq DOMAIN queue
             /\ \A k \in DOMAIN queue :
                   IF k \in DOMAIN queue'
                   THEN queue'[k] = queue[k]
                   ELSE /\ k \in DOMAIN results
                        /\ results[k].relevance = "Low"
                        /\ queue[k].patent_id \in last'.patent_ids
       /\ last'.op # "sync" => DOMAIN queue \subseteq DOMAIN queue']_vars

\* A sync run on both ids has deleted the QueueItem of a Low Result and left
\* the QueueItem of a High Result, whose id was requested too, in the Queue.
C39_Witness ==
    /\ IsSync(last)
    /\ last.ret.removed = 1
    /\ \E k \in DOMAIN results : results[k].relevance = "Low" /\ k \notin DOMAIN queue
    /\ \E k \in DOMAIN queue \cap DOMAIN results :
          /\ results[k].relevance = "High"
          /\ queue[k].patent_id \in last.patent_ids

=============================================================================
